---- MODULE Spec2Model ----
(***************************************************************************)
(* Observability engine of exoptima: single-night evaluation (constraint  *)
(* masks, transit filter), the night cache and the multi-night loop.      *)
(*                                                                         *)
(* Time is counted in integer ticks.  The tick is chosen so that half an   *)
(* hour and the step of the linspace time grid are whole numbers of ticks. *)
(* Angles are whole degrees, illumination is in percent.                   *)
(***************************************************************************)
EXTENDS Integers, Sequences, FiniteSets, TLC

VARIABLES
    night_cache,   \* AppState.night_cache: dict date -> NightObservability
    evalCalls,     \* number of invocations of compute_single_night_observability
    cur,           \* the latest engine call: arguments, what it did, what it returned
    prev,          \* the engine call before it
    inp,           \* arguments of the single-night evaluation under study
    result,        \* what that evaluation returned
    pc,            \* which evaluator produced result ("input" before any ran)
    app_state      \* the AppState the recompute drivers read and write

vars == <<night_cache, evalCalls, cur, prev, inp, result, pc, app_state>>

-----------------------------------------------------------------------------
(* Bounds of the model *)

\* samples of the nightly time grid (DAY_OBS_NSAMPLES is 300 in config/layout.py)
DAY_OBS_NSAMPLES == 3
\* invocations of the single-night evaluator in one behaviour
MaxEvalCalls == 3
\* reference instants handed to one multi-night call
MaxNights == 2
\* transit epochs n in -MaxTransitIndex..MaxTransitIndex are looked at when a
\* property speaks of "some transit instant T0 + n*P"
MaxTransitIndex == 4

-----------------------------------------------------------------------------
(* Units and sentinels *)

Hour == 2 * (DAY_OBS_NSAMPLES - 1)
DAYTIME_INTERVAL == Hour \div 2
Day == 24 * Hour

None == [none |-> TRUE]
NaN == -9999
PosInf == 9999

IsFinite(x) == x # NaN /\ x # PosInf
\* IEEE comparison: anything compared with not-a-number is false
GE(a, b) == a # NaN /\ b # NaN /\ a >= b
LE(a, b) == a # NaN /\ b # NaN /\ a <= b

Idx == 1..DAY_OBS_NSAMPLES

SetMax(S) == CHOOSE x \in S : \A y \in S : y <= x
SetMin(S) == CHOOSE x \in S : \A y \in S : x <= y

RECURSIVE SumOver(_, _)
SumOver(f, S) ==
    IF S = {} THEN 0
    ELSE LET i == CHOOSE j \in S : TRUE IN f[i] + SumOver(f, S \ {i})

-----------------------------------------------------------------------------
(* Ephemeris provider (astroplan Observer), as the engine consumes it *)

NightDefinitions == {"Sunset to sunrise", "Nautical twilight", "Astronomical twilight"}
\* a night-definition value that is none of the three policies
UnknownDefinition == "Civil twilight"

\* hour (UTC, counted from 0h of calendar day d) of the evening event of night d
EveningHour(night_def) ==
    CASE night_def = "Sunset to sunrise" -> 23
      [] night_def = "Nautical twilight" -> 24
      [] night_def = "Astronomical twilight" -> 25

\* hour (counted from 0h of calendar day d) of the morning event ending night d
MorningHour(night_def) ==
    CASE night_def = "Sunset to sunrise" -> 35
      [] night_def = "Nautical twilight" -> 34
      [] night_def = "Astronomical twilight" -> 33

\* the calendar days whose events can be the nearest ones to instant t
EphemerisDays(t) == ((t \div Day) - 2)..((t \div Day) + 2)

EveningEvents(night_def, t) ==
    {d * Day + EveningHour(night_def) * Hour : d \in EphemerisDays(t)}
MorningEvents(night_def, t) ==
    {d * Day + MorningHour(night_def) * Hour : d \in EphemerisDays(t)}

\* observer.is_night(t, horizon): the Sun is below the definition's horizon
IsNight(t, night_def) ==
    \E d \in EphemerisDays(t) :
        /\ d * Day + EveningHour(night_def) * Hour < t
        /\ t < d * Day + MorningHour(night_def) * Hour

PreviousEvent(events, t) == SetMax({e \in events : e <= t})
NextEvent(events, t) == SetMin({e \in events : e >= t})

\* to_datetime().date(): the civil (UTC) calendar date of an instant
CivilDate(t) == t \div Day

\* an exception leaving a function
Raise(exc) == [raised |-> exc]
Raised(x) == "raised" \in DOMAIN x

-----------------------------------------------------------------------------
(* Single-night evaluation: core/observability.py *)

\* variant: the evening event is looked up with which="next" in both branches
NightBoundsAlwaysNext(ref_time, night_def) ==
    IF night_def \notin NightDefinitions
    THEN Raise("ValueError")
    ELSE LET s == NextEvent(EveningEvents(night_def, ref_time), ref_time)
         IN  [t_start |-> s,
              t_end   |-> IF IsNight(ref_time, night_def)
                          THEN NextEvent(MorningEvents(night_def, ref_time), ref_time)
                          ELSE NextEvent(MorningEvents(night_def, s), s)]

\* variant: a value that is none of the three policies is read as the default
\* policy, nautical twilight
NightBoundsDefaulting(ref_time, night_def) ==
    LET d == IF night_def \in NightDefinitions THEN night_def ELSE "Nautical twilight"
    IN  IF IsNight(ref_time, d)
        THEN [t_start |-> PreviousEvent(EveningEvents(d, ref_time), ref_time),
              t_end   |-> NextEvent(MorningEvents(d, ref_time), ref_time)]
        ELSE LET s == NextEvent(EveningEvents(d, ref_time), ref_time)
             IN  [t_start |-> s, t_end |-> NextEvent(MorningEvents(d, s), s)]

_night_bounds(ref_time, night_def) ==
    IF night_def \notin NightDefinitions
    THEN Raise("ValueError")
    ELSE IF IsNight(ref_time, night_def)
    THEN [t_start |-> PreviousEvent(EveningEvents(night_def, ref_time), ref_time),
          t_end   |-> NextEvent(MorningEvents(night_def, ref_time), ref_time)]
    ELSE LET s == NextEvent(EveningEvents(night_def, ref_time), ref_time)
         IN  [t_start |-> s, t_end |-> NextEvent(MorningEvents(night_def, s), s)]

\* np.linspace over [night_start - DAYTIME_INTERVAL, night_end + DAYTIME_INTERVAL]
TimeGrid(night_start, night_end) ==
    LET t_start == night_start - DAYTIME_INTERVAL
        t_end   == night_end + DAYTIME_INTERVAL
    IN  [i \in Idx |-> t_start + ((i - 1) * (t_end - t_start)) \div (DAY_OBS_NSAMPLES - 1)]

\* arcsin(1 / max_airmass) in degrees; max_airmass in tenths
MinAltitude(max_airmass) ==
    CASE max_airmass = 10 -> 90
      [] max_airmass = 20 -> 30
      [] max_airmass = 30 -> 20

NightMask(times, night_start, night_end) ==
    [i \in Idx |-> times[i] >= night_start /\ times[i] <= night_end]

MoonSepMask(moon_sep, conditions) ==
    [i \in Idx |-> GE(moon_sep[i], conditions.min_moon_separation)]

\* variant: the threshold test is applied whatever the threshold, with a strict
\* comparison
MoonMaskUnguarded(moon_sep, fli, conditions) ==
    [i \in Idx |-> \/ GE(moon_sep[i], conditions.min_moon_separation)
                   \/ ~(fli[i] # NaN /\ fli[i] < conditions.ignore_moon_if_fli_above)]

MoonMask(moon_sep, fli, conditions) ==
    LET moon_sep_mask == MoonSepMask(moon_sep, conditions)
    IN  IF conditions.ignore_moon_if_fli_above < 100
        THEN LET moon_fli_mask == [i \in Idx |-> LE(fli[i], conditions.ignore_moon_if_fli_above)]
             IN  [i \in Idx |-> moon_sep_mask[i] \/ ~moon_fli_mask[i]]
        ELSE moon_sep_mask

\* variant: the night mask is left out
GlobalMaskNoNight(night_mask, altitude, min_altitude, moon_mask) ==
    [i \in Idx |-> /\ GE(altitude[i], min_altitude)
                   /\ moon_mask[i]
                   /\ IsFinite(altitude[i])]

GlobalMask(night_mask, altitude, min_altitude, moon_mask) ==
    [i \in Idx |-> /\ night_mask[i]
                   /\ GE(altitude[i], min_altitude)
                   /\ moon_mask[i]
                   /\ IsFinite(altitude[i])]

CountTrue(mask) == Cardinality({i \in Idx : mask[i]})

AllFalse == [i \in Idx |-> FALSE]

\* variant: the window's endpoints are excluded
HasTransitStrictlyInside(t0_jd, period_days, window_start, window_end) ==
    \E n \in ((window_start - t0_jd) \div period_days)..(0 - ((t0_jd - window_end) \div period_days)) :
        /\ t0_jd + n * period_days > window_start
        /\ t0_jd + n * period_days < window_end

\* variant: the enumeration starts one epoch after the floor
HasTransitFromNextEpoch(t0_jd, period_days, window_start, window_end) ==
    \E n \in (((window_start - t0_jd) \div period_days) + 1)..(0 - ((t0_jd - window_end) \div period_days)) :
        /\ t0_jd + n * period_days >= window_start
        /\ t0_jd + n * period_days <= window_end

\* lines 40-48: n runs from floor((start - T0)/P) to ceil((end - T0)/P);
\* instants and the period are whole ticks
_has_transit_in_window(t0_jd, period_days, window_start, window_end) ==
    LET n_min == (window_start - t0_jd) \div period_days
        n_max == 0 - ((t0_jd - window_end) \div period_days)
    IN  \E n \in n_min..n_max :
            /\ t0_jd + n * period_days >= window_start
            /\ t0_jd + n * period_days <= window_end

\* variant: a failed transit requirement clears the mask and leaves the
\* observable time as computed before the filter
TransitFilterKeepsTime(r, planet_params, night_start, night_end) ==
    IF planet_params # None /\ planet_params.include_transit_in_observability
    THEN IF \/ planet_params.t0_jd = {} \/ planet_params.orbital_period_days = {}
            \/ ~_has_transit_in_window(SetMin(planet_params.t0_jd),
                                       SetMin(planet_params.orbital_period_days),
                                       night_start, night_end)
         THEN [mask |-> AllFalse, observable_time |-> r.observable_time, is_observable |-> FALSE]
         ELSE r
    ELSE r

\* variant: the filter is skipped when T0 or the period is missing
TransitFilterFailsOpen(r, planet_params, night_start, night_end) ==
    IF /\ planet_params # None /\ planet_params.include_transit_in_observability
       /\ planet_params.t0_jd # {} /\ planet_params.orbital_period_days # {}
       /\ ~_has_transit_in_window(SetMin(planet_params.t0_jd),
                                  SetMin(planet_params.orbital_period_days),
                                  night_start, night_end)
    THEN [mask |-> AllFalse, observable_time |-> 0, is_observable |-> FALSE]
    ELSE r

\* the optional transit constraint applied to (mask, observable_time, is_observable)
TransitFilter(r, planet_params, night_start, night_end) ==
    IF planet_params # None /\ planet_params.include_transit_in_observability
    THEN IF planet_params.t0_jd = {} \/ planet_params.orbital_period_days = {}
         THEN [mask |-> AllFalse, observable_time |-> 0, is_observable |-> FALSE]
         ELSE IF ~_has_transit_in_window(SetMin(planet_params.t0_jd),
                                         SetMin(planet_params.orbital_period_days),
                                         night_start, night_end)
              THEN [mask |-> AllFalse, observable_time |-> 0, is_observable |-> FALSE]
              ELSE r
    ELSE r

\* 1/sin(altitude) in tenths, for the altitudes of the model
Airmass(alt) ==
    CASE alt = 20 -> 29
      [] alt = 30 -> 20
      [] alt = 60 -> 12
      [] OTHER -> NaN

Masked(mask) == {i \in Idx : mask[i]}

SummaryMetrics(altitude, moon_sep, fli, mask) ==
    [min_airmass  |-> IF Masked(mask) # {}
                      THEN SetMin({Airmass(altitude[i]) : i \in Masked(mask)})
                      ELSE NaN,
     min_moon_sep |-> IF Masked(mask) # {}
                      THEN SetMin({moon_sep[i] : i \in Masked(mask)})
                      ELSE NaN,
     mean_fli     |-> IF Masked(mask) # {}
                      THEN [sum |-> SumOver(fli, Masked(mask)), n |-> CountTrue(mask)]
                      ELSE [sum |-> 0, n |-> 0]]

\* lines 198-210: the ObservabilityResult built from the filtered mask
ObservabilityResult(times, altitude, night_start, night_end, r, m) ==
    [time_grid       |-> times,
     altitude        |-> altitude,
     mask            |-> r.mask,
     observable_time |-> r.observable_time,
     night_start     |-> night_start,
     night_end       |-> night_end,
     night_duration  |-> night_end - night_start,
     is_observable   |-> r.is_observable,
     min_airmass     |-> m.min_airmass,
     min_moon_sep    |-> m.min_moon_sep,
     mean_fli        |-> m.mean_fli]

\* lines 158-160: dt = times[1] - times[0], observable_time = mask.sum() * dt
Unfiltered(mask, dt, conditions) ==
    [mask            |-> mask,
     observable_time |-> CountTrue(mask) * dt,
     is_observable   |-> CountTrue(mask) * dt >= conditions.min_duration]

\* lines 187-210, r being the outcome of the transit filter
Summarise(sky, times, night_start, night_end, r) ==
    ObservabilityResult(times, sky.altitude, night_start, night_end, r,
                        SummaryMetrics(sky.altitude, sky.moon_sep, sky.fli, r.mask))

\* lines 111-210, on the grid `times` of the night [night_start, night_end]
EvaluateOnGrid(sky, conditions, planet_params, night_start, night_end, times) ==
    Summarise(sky, times, night_start, night_end,
              TransitFilter(Unfiltered(GlobalMask(NightMask(times, night_start, night_end),
                                                  sky.altitude,
                                                  MinAltitude(conditions.max_airmass),
                                                  MoonMask(sky.moon_sep, sky.fli, conditions)),
                                       times[2] - times[1], conditions),
                            planet_params, night_start, night_end))

EvaluateNight(sky, conditions, planet_params, nb) ==
    EvaluateOnGrid(sky, conditions, planet_params, nb.t_start, nb.t_end,
                   TimeGrid(nb.t_start, nb.t_end))

\* sky: what observer.altaz, get_moon/separation and moon_illumination answer
\* on the grid, for the given observer and target; sky.unavailable holds the
\* reference instants for whose night these providers raise instead
compute_single_night_observability(sky, ref_time, conditions, night_definition, planet_params) ==
    IF Raised(_night_bounds(ref_time, night_definition))
    THEN _night_bounds(ref_time, night_definition)
    ELSE IF ref_time \in sky.unavailable
    THEN Raise("EphemerisError")
    ELSE EvaluateNight(sky, conditions, planet_params, _night_bounds(ref_time, night_definition))

-----------------------------------------------------------------------------
(* Legacy single-night evaluation: core/app_logic.py *)

\* recompute_observability of app_logic.py: no night mask, no transit filter;
\* the summary metrics reduce over the masked samples without an empty check,
\* so an empty mask raises (np.nanmin of an empty array)
LegacyMask(altitude, min_altitude, moon_mask) ==
    [i \in Idx |-> /\ GE(altitude[i], min_altitude)
                   /\ moon_mask[i]
                   /\ IsFinite(altitude[i])]

LegacyOnGrid(sky, conditions, night_start, night_end, times, mask) ==
    IF Masked(mask) = {}
    THEN Raise("ValueError")
    ELSE Summarise(sky, times, night_start, night_end,
                   Unfiltered(mask, times[2] - times[1], conditions))

LegacyNight(sky, conditions, nb) ==
    LegacyOnGrid(sky, conditions, nb.t_start, nb.t_end, TimeGrid(nb.t_start, nb.t_end),
                 LegacyMask(sky.altitude, MinAltitude(conditions.max_airmass),
                            MoonMask(sky.moon_sep, sky.fli, conditions)))

app_logic_recompute_observability(sky, ref_time, conditions, night_definition) ==
    IF Raised(_night_bounds(ref_time, night_definition))
    THEN _night_bounds(ref_time, night_definition)
    ELSE LegacyNight(sky, conditions, _night_bounds(ref_time, night_definition))

-----------------------------------------------------------------------------
(* Inputs of the single-night evaluation under study *)

AltitudeValues == {NaN, 20, 30}
MoonSepValues == {20, 30}
FliValues == {5, 100}

Skies == [altitude : [Idx -> AltitudeValues],
          moon_sep : [Idx -> MoonSepValues],
          fli      : [Idx -> FliValues],
          unavailable : {{}}]

ConditionsSet == [max_airmass              : {20},
                  min_duration             : {0, 8 * Hour},
                  min_moon_separation      : {30},
                  ignore_moon_if_fli_above : {5, 100}]

\* the reference instant and night definition of the study: noon of day 0,
\* AppState's default night definition
StudyRef == 12 * Hour
StudyDef == "Nautical twilight"
StudyNight == _night_bounds(StudyRef, StudyDef)

PlanetParameters(flag, t0, period) ==
    [include_transit_in_observability |-> flag, t0_jd |-> t0, orbital_period_days |-> period]

\* planet parameters: absent; transit required, with a transit exactly at
\* night_start (n = 2), exactly at night_end (n = -1), with none in the night,
\* without T0, without period; transit not required and none in the night
PlanetSet ==
    { None,
      PlanetParameters(TRUE, {StudyNight.t_start - 2 * 36 * Hour}, {36 * Hour}),
      PlanetParameters(TRUE, {StudyNight.t_end + 36 * Hour}, {36 * Hour}),
      PlanetParameters(TRUE, {StudyNight.t_end + 1}, {36 * Hour}),
      PlanetParameters(TRUE, {}, {36 * Hour}),
      PlanetParameters(TRUE, {StudyNight.t_start}, {}),
      PlanetParameters(FALSE, {StudyNight.t_end + 1}, {36 * Hour}) }

StudyInputs == [sky : Skies, ref_time : {StudyRef}, conditions : ConditionsSet,
                night_definition : {StudyDef}, planet_params : PlanetSet]

-----------------------------------------------------------------------------
(* Specification of the single-night evaluation on drawn inputs *)

InitNight ==
    /\ inp \in StudyInputs
    /\ result = None
    /\ pc = "input"
    /\ night_cache = << >>
    /\ evalCalls = 0
    /\ cur = None
    /\ prev = None
    /\ app_state = None

Evaluate ==
    /\ pc = "input"
    /\ result' = compute_single_night_observability(inp.sky, inp.ref_time, inp.conditions,
                                                    inp.night_definition, inp.planet_params)
    /\ pc' = "core"
    /\ UNCHANGED <<inp, night_cache, evalCalls, cur, prev, app_state>>

EvaluateLegacy ==
    /\ pc = "input"
    /\ result' = app_logic_recompute_observability(inp.sky, inp.ref_time, inp.conditions,
                                                   inp.night_definition)
    /\ pc' = "legacy"
    /\ UNCHANGED <<inp, night_cache, evalCalls, cur, prev, app_state>>

NextNight == Evaluate \/ EvaluateLegacy

SpecNight == InitNight /\ [][NextNight]_vars

-----------------------------------------------------------------------------
(* Night cache and multi-night loop: core/observability.py *)

\* NightObservability(date=night_date, result=result)
NightObservability(night_date, res) == [date |-> night_date, result |-> res]

\* variant: the key is the civil date of the reference instant
NightDateOfReference(res, ref_time) == CivilDate(ref_time)

\* the key get_or_compute_night files a result under
NightDate(res, ref_time) == CivilDate(res.night_start)

\* variant: the entry is stored whether or not the key is present
CacheInsertOverwrite(cache, night_date, res) ==
    [k \in DOMAIN cache \cup {night_date} |->
        IF k = night_date THEN NightObservability(night_date, res) ELSE cache[k]]

\* variant: a miss starts a new dict holding only the new entry
CacheInsertEvict(cache, night_date, res) ==
    IF night_date \notin DOMAIN cache
    THEN (night_date :> NightObservability(night_date, res))
    ELSE cache

\* lines 242-246: insert only when the key is absent
CacheInsert(cache, night_date, res) ==
    IF night_date \notin DOMAIN cache
    THEN cache @@ (night_date :> NightObservability(night_date, res))
    ELSE cache

\* lines 240-248: file the fresh result `res` and return the cache's entry
FileNight(cache, calls, night_date, res) ==
    [cache      |-> CacheInsert(cache, night_date, res),
     calls      |-> calls,
     night_date |-> night_date,
     hit        |-> night_date \in DOMAIN cache,
     computed   |-> res,
     ret        |-> CacheInsert(cache, night_date, res)[night_date]]

\* an exception of the evaluator leaves get_or_compute_night at line 231
FileResult(cache, calls, ref_time, res) ==
    IF Raised(res)
    THEN [raised |-> res.raised, cache |-> cache, calls |-> calls]
    ELSE FileNight(cache, calls, NightDate(res, ref_time), res)

\* One call of get_or_compute_night on cache `cache`, `calls` evaluator
\* invocations having happened before it.  The evaluator runs first (line 231);
\* each ObservabilityResult it builds is a new object, told apart by oid.
get_or_compute_night(cache, calls, sky, ref_time, conditions, night_definition, planet_params) ==
    FileResult(cache, calls + 1, ref_time,
               [oid |-> calls + 1] @@
               compute_single_night_observability(sky, ref_time, conditions,
                                                  night_definition, planet_params))

\* variant: a night already in the list is not appended again
AccumulateDistinct(acc, g) ==
    IF Raised(g)
    THEN [acc EXCEPT !.calls = g.calls, !.raised = {g.raised}]
    ELSE IF \E j \in 1..Len(acc.nights) : acc.nights[j] = g.ret
    THEN [acc EXCEPT !.cache = g.cache, !.calls = g.calls]
    ELSE [cache  |-> g.cache,
          calls  |-> g.calls,
          raised |-> {},
          dates  |-> Append(acc.dates, g.night_date),
          hits   |-> Append(acc.hits, g.hit),
          fresh  |-> Append(acc.fresh, g.computed),
          nights |-> Append(acc.nights, g.ret)]

\* what one iteration of the loop adds to the accumulated outcome
Accumulate(acc, g) ==
    IF Raised(g)
    THEN [acc EXCEPT !.calls = g.calls, !.raised = {g.raised}]
    ELSE [cache  |-> g.cache,
          calls  |-> g.calls,
          raised |-> {},
          dates  |-> Append(acc.dates, g.night_date),
          hits   |-> Append(acc.hits, g.hit),
          fresh  |-> Append(acc.fresh, g.computed),
          nights |-> Append(acc.nights, g.ret)]

\* the outcome of a loop that has not run yet
NoNights(cache, calls) ==
    [cache |-> cache, calls |-> calls, raised |-> {}, dates |-> << >>, hits |-> << >>,
     fresh |-> << >>, nights |-> << >>]

\* the loop of compute_multi_night_observability over ref_times, from element i on;
\* acc carries the cache, the call counter and what each iteration did; an
\* exception of an iteration leaves the loop and the function
RECURSIVE MultiNightLoop(_, _, _, _, _, _, _)
MultiNightLoop(acc, i, sky, ref_times, conditions, night_definition, planet_params) ==
    IF i > Len(ref_times) \/ acc.raised # {}
    THEN acc
    ELSE MultiNightLoop(Accumulate(acc,
                                   get_or_compute_night(acc.cache, acc.calls, sky, ref_times[i],
                                                        conditions, night_definition,
                                                        planet_params)),
                        i + 1, sky, ref_times, conditions, night_definition, planet_params)

compute_multi_night_observability(cache, calls, sky, ref_times, conditions, night_definition, planet_params) ==
    MultiNightLoop(NoNights(cache, calls), 1, sky, ref_times, conditions, night_definition, planet_params)

-----------------------------------------------------------------------------
(* Inputs of the engine calls *)

\* two targets as the ephemeris sees them: one high all night far from a bright
\* Moon, one low and close to a dark Moon
SkyHigh == [altitude |-> [i \in Idx |-> 60], moon_sep |-> [i \in Idx |-> 30],
            fli |-> [i \in Idx |-> 100], unavailable |-> {}]
SkyLow  == [altitude |-> [i \in Idx |-> 20], moon_sep |-> [i \in Idx |-> 20],
            fli |-> [i \in Idx |-> 5], unavailable |-> {}]
\* the first target, the providers raising for the night of noon of day 1
SkyGap  == [SkyHigh EXCEPT !.unavailable = {Day + 12 * Hour}]

DefaultConditions == [max_airmass |-> 20, min_duration |-> Hour,
                      min_moon_separation |-> 30, ignore_moon_if_fli_above |-> 5]
LooseConditions   == [max_airmass |-> 30, min_duration |-> 0,
                      min_moon_separation |-> 20, ignore_moon_if_fli_above |-> 100]

NoTransitPlanet == PlanetParameters(TRUE, {}, {36 * Hour})

\* argument sets of the engine calls: a base set; one for another target; one
\* with other conditions, night definition and planet parameters; one with an
\* unknown night definition; one whose providers fail for one night
EngineArgs ==
    { [sky |-> SkyHigh, conditions |-> DefaultConditions,
       night_definition |-> "Nautical twilight", planet_params |-> None],
      [sky |-> SkyLow, conditions |-> DefaultConditions,
       night_definition |-> "Nautical twilight", planet_params |-> None],
      [sky |-> SkyHigh, conditions |-> LooseConditions,
       night_definition |-> "Sunset to sunrise", planet_params |-> NoTransitPlanet],
      [sky |-> SkyHigh, conditions |-> DefaultConditions,
       night_definition |-> UnknownDefinition, planet_params |-> None],
      [sky |-> SkyGap, conditions |-> DefaultConditions,
       night_definition |-> "Nautical twilight", planet_params |-> None] }

\* reference instants: noon of day 0, 02:00 of day 1 (inside the night that
\* follows noon of day 0), noon of day 1
RefTimes == {12 * Hour, Day + 2 * Hour, Day + 12 * Hour}

RECURSIVE SeqsUpTo(_, _)
SeqsUpTo(S, n) ==
    IF n = 0 THEN {<< >>}
    ELSE LET shorter == SeqsUpTo(S, n - 1)
         IN  shorter \cup {Append(q, x) : q \in {r \in shorter : Len(r) = n - 1}, x \in S}

RefTimeSeqs == SeqsUpTo(RefTimes, MaxNights) \ {<< >>}

-----------------------------------------------------------------------------
(* Specification of the engine calls on one session's cache *)

Init ==
    /\ night_cache = << >>
    /\ evalCalls = 0
    /\ cur = None
    /\ prev = None
    /\ app_state = None
    /\ inp = None
    /\ result = None
    /\ pc = "engine"

\* the engine call `op` with arguments a and ref_times ran and had outcome m
Called(op, a, ref_times, m) ==
    /\ night_cache' = m.cache
    /\ evalCalls' = m.calls
    /\ cur' = [op |-> op, args |-> a, ref_times |-> ref_times,
               calls_before |-> evalCalls, calls_after |-> m.calls,
               cache_before |-> night_cache, cache_after |-> m.cache,
               raised |-> m.raised,
               dates |-> m.dates, hits |-> m.hits, fresh |-> m.fresh, nights |-> m.nights]
    /\ prev' = cur
    /\ UNCHANGED <<inp, result, pc, app_state>>

\* the outcome of a single get_or_compute_night call, in the shape of a loop outcome
Single(g) == Accumulate(NoNights(g.cache, g.calls), g)

CallGetOrComputeNight ==
    \E a \in EngineArgs, ref_time \in RefTimes :
        /\ evalCalls + 1 <= MaxEvalCalls
        /\ Called("get_or_compute_night", a, <<ref_time>>,
                  Single(get_or_compute_night(night_cache, evalCalls, a.sky, ref_time,
                                              a.conditions, a.night_definition,
                                              a.planet_params)))

CallComputeMultiNight ==
    \E a \in EngineArgs, ref_times \in RefTimeSeqs :
        /\ evalCalls + Len(ref_times) <= MaxEvalCalls
        /\ Called("compute_multi_night_observability", a, ref_times,
                  compute_multi_night_observability(night_cache, evalCalls, a.sky, ref_times,
                                                    a.conditions, a.night_definition,
                                                    a.planet_params))

Next == CallGetOrComputeNight \/ CallComputeMultiNight

Spec == Init /\ [][Next]_vars

-----------------------------------------------------------------------------
(* Properties of the night cache (specification Spec) *)

IsCall(c) == c # None
\* a get_or_compute_night call that returned
IsSingle(c) == IsCall(c) /\ c.op = "get_or_compute_night" /\ c.raised = {}
\* the reference instants of call c that were resolved to an entry
Positions(c) == 1..Len(c.nights)

\* the civil date of the night that element i of call c resolves to
ResolvedDate(c, i) ==
    CivilDate(_night_bounds(c.ref_times[i], c.args.night_definition).t_start)

\* two consecutive get_or_compute_night calls with the same reference instant
\* and the same other arguments
RepeatedCall ==
    /\ IsSingle(cur) /\ IsSingle(prev)
    /\ cur.ref_times = prev.ref_times
    /\ cur.args = prev.args

\* C1: on a cache hit get_or_compute_night does not invoke the single-night
\* evaluator: the evaluator's call counter is the same after the call as before.
C1_NoRecomputationOnHit ==
    (IsSingle(cur) /\ cur.hits[1]) => cur.calls_after = cur.calls_before

\* C2: a second get_or_compute_night call with the same reference instant and
\* unchanged inputs returns the very entry the first call returned, and leaves
\* the cache as the first call left it.
C2_Idempotent ==
    RepeatedCall =>
        /\ cur.nights[1] = prev.nights[1]
        /\ night_cache = prev.cache_after

\* C2 witness: a repeated call whose first call was itself served from a cache
\* filled by an earlier call
C2_Witness ==
    /\ RepeatedCall
    /\ prev.hits[1]
    /\ cur.hits[1]

\* C3: every cache key k maps to an entry whose date is k and whose night_start
\* has civil date k; reference instants that resolve to the same night date
\* (within one call or across two consecutive calls) get the same entry, and a
\* call on an already resolved night adds no entry.
C3_KeyedByNightDate ==
    /\ \A k \in DOMAIN night_cache :
           /\ night_cache[k].date = k
           /\ CivilDate(night_cache[k].result.night_start) = k
    /\ IsCall(cur) =>
           \A i \in Positions(cur), j \in Positions(cur) :
               ResolvedDate(cur, i) = ResolvedDate(cur, j) => cur.nights[i] = cur.nights[j]
    /\ (IsCall(cur) /\ IsCall(prev)) =>
           \A i \in Positions(cur), j \in Positions(prev) :
               ResolvedDate(cur, i) = ResolvedDate(prev, j) => cur.nights[i] = prev.nights[j]
    /\ (IsSingle(cur) /\ IsSingle(prev) /\ ResolvedDate(cur, 1) = ResolvedDate(prev, 1)) =>
           night_cache = prev.cache_after

\* C3 witness: two different reference instants resolved to the same night and
\* share the single entry of the cache
C3_Witness ==
    /\ IsSingle(cur) /\ IsSingle(prev)
    /\ cur.ref_times[1] # prev.ref_times[1]
    /\ ResolvedDate(cur, 1) = ResolvedDate(prev, 1)
    /\ Cardinality(DOMAIN night_cache) = 1
    /\ cur.nights[1] = prev.nights[1]

\* C4: an engine call removes no key and replaces no entry, and for a night
\* already in the cache it returns the stored entry, whatever its arguments.
C4_InsertOnly ==
    [][ /\ \A k \in DOMAIN night_cache :
               k \in DOMAIN night_cache' /\ night_cache'[k] = night_cache[k]
        /\ \A i \in Positions(cur') :
               cur'.dates[i] \in DOMAIN night_cache =>
                   cur'.nights[i] = night_cache[cur'.dates[i]]
      ]_vars

\* C4 witness: a call whose arguments differ from those the stored entry was
\* computed with got the stale entry: its own evaluation gave another mask
C4_Witness ==
    /\ IsCall(cur) /\ IsCall(prev)
    /\ cur.args # prev.args
    /\ \E i \in Positions(cur) :
           /\ cur.hits[i]
           /\ cur.dates[i] \in DOMAIN cur.cache_before
           /\ cur.nights[i].result.mask # cur.fresh[i].mask
           /\ cur.nights[i] = cur.cache_before[cur.dates[i]]

IsMulti(c) == IsCall(c) /\ c.op = "compute_multi_night_observability"
AllPositions(c) == 1..Len(c.ref_times)

\* C12: an unknown night definition makes the engine call fail with an error
\* before any result is produced, and the night cache is left exactly as it
\* was before the call.
C12_UnknownDefinitionFails ==
    (IsCall(cur) /\ cur.args.night_definition \notin NightDefinitions) =>
        /\ cur.raised = {"ValueError"}
        /\ cur.fresh = << >>
        /\ cur.nights = << >>
        /\ night_cache = cur.cache_before

\* C12 witness: get_or_compute_night failed on the unknown definition with a
\* night already in the cache, after one evaluator invocation
C12_Witness ==
    /\ IsCall(cur)
    /\ cur.op = "get_or_compute_night"
    /\ cur.args.night_definition = UnknownDefinition
    /\ cur.raised # {}
    /\ cur.calls_after = cur.calls_before + 1
    /\ DOMAIN cur.cache_before # {}
    /\ night_cache = cur.cache_before

\* C15: a multi-night call that returns has one output night per reference
\* instant, in generation order: element i is the cache entry of the night that
\* reference instant i resolves to; nothing is re-sorted or de-duplicated.
C15_GenerationOrder ==
    (IsMulti(cur) /\ cur.raised = {}) =>
        /\ Len(cur.nights) = Len(cur.ref_times)
        /\ \A i \in AllPositions(cur) :
               /\ ResolvedDate(cur, i) \in DOMAIN night_cache
               /\ cur.nights[i] = night_cache[ResolvedDate(cur, i)]

\* C15 witness: two reference instants given in descending order resolve to
\* the same night, and its entry stands at both positions
C15_Witness ==
    /\ IsMulti(cur) /\ cur.raised = {}
    /\ \E i \in AllPositions(cur), j \in AllPositions(cur) :
           /\ i < j
           /\ cur.ref_times[i] > cur.ref_times[j]
           /\ ResolvedDate(cur, i) = ResolvedDate(cur, j)
           /\ cur.nights[i] = cur.nights[j]

\* C16: one bad night does not abort the batch: a multi-night call in which
\* the evaluation of some reference instant fails, the night definition being
\* valid, still returns, with the night of every other reference instant.
C16_BadNightDoesNotAbort ==
    (/\ IsMulti(cur)
     /\ cur.args.night_definition \in NightDefinitions
     /\ \E i \in AllPositions(cur) : cur.ref_times[i] \in cur.args.sky.unavailable) =>
        /\ cur.raised = {}
        /\ \A i \in AllPositions(cur) :
               cur.ref_times[i] \notin cur.args.sky.unavailable =>
                   \E j \in Positions(cur) : cur.nights[j].date = ResolvedDate(cur, i)

-----------------------------------------------------------------------------
(* Properties of the single-night evaluation (specification SpecNight) *)

\* an evaluator ran and returned an ObservabilityResult
Returned == pc \in {"core", "legacy"} /\ "mask" \in DOMAIN result
CoreReturned == pc = "core" /\ "mask" \in DOMAIN result

\* the inputs with another illumination series / other planet parameters
EvaluateWithFli(f) ==
    compute_single_night_observability([inp.sky EXCEPT !.fli = f], inp.ref_time,
                                       inp.conditions, inp.night_definition, inp.planet_params)
EvaluateWithPlanet(pp) ==
    compute_single_night_observability(inp.sky, inp.ref_time, inp.conditions,
                                       inp.night_definition, pp)

SameMaskAndTime(r1, r2) ==
    r1.mask = r2.mask /\ r1.observable_time = r2.observable_time
SameOutcome(r1, r2) ==
    SameMaskAndTime(r1, r2) /\ r1.is_observable = r2.is_observable

\* sample i passes the night-window and altitude constraints of the inputs
PassesNightAndAltitude(i) ==
    /\ result.night_start <= result.time_grid[i]
    /\ result.time_grid[i] <= result.night_end
    /\ inp.sky.altitude[i] # NaN
    /\ inp.sky.altitude[i] # PosInf
    /\ inp.sky.altitude[i] >= MinAltitude(inp.conditions.max_airmass)

\* the Moon rule as the claim states it
StatedMoonRule(i) ==
    \/ inp.sky.moon_sep[i] >= inp.conditions.min_moon_separation
    \/ inp.sky.fli[i] <= inp.conditions.ignore_moon_if_fli_above

\* the transit requirement is set
TransitRequired ==
    inp.planet_params # None /\ inp.planet_params.include_transit_in_observability

\* T0 and period are given and some transit instant T0 + n*P lies in the night
SomeTransitInNight ==
    /\ inp.planet_params.t0_jd # {}
    /\ inp.planet_params.orbital_period_days # {}
    /\ \E n \in (0 - MaxTransitIndex)..MaxTransitIndex :
           LET t == SetMin(inp.planet_params.t0_jd)
                    + n * SetMin(inp.planet_params.orbital_period_days)
           IN  result.night_start <= t /\ t <= result.night_end

\* C5: with ignore_moon_if_fli_above < 1.0 a sample passes the Moon constraint
\* iff its separation is at least min_moon_separation or its illumination is at
\* most the threshold; seen on the returned mask of an evaluation without planet
\* parameters, where the other constraints are the night window and the altitude.
C5_MoonOverrideRule ==
    (CoreReturned /\ inp.planet_params = None /\ inp.conditions.ignore_moon_if_fli_above < 100) =>
        \A i \in Idx : result.mask[i] = (PassesNightAndAltitude(i) /\ StatedMoonRule(i))

\* C6: with ignore_moon_if_fli_above >= 1.0 the illumination series does not
\* affect the outcome: the evaluation of the same inputs with any other
\* illumination series has the same mask and the same observable_time.
C6_IlluminationNonInterference ==
    (CoreReturned /\ inp.conditions.ignore_moon_if_fli_above >= 100) =>
        \A f \in [Idx -> FliValues] : SameMaskAndTime(EvaluateWithFli(f), result)

\* C6 witness: threshold 1.0 and no planet parameters; a sample inside the
\* night, high enough, is excluded for its Moon separation alone although the
\* Moon is dark, and the illumination is not the same at every sample
C6_Witness ==
    /\ CoreReturned
    /\ inp.conditions.ignore_moon_if_fli_above >= 100
    /\ inp.planet_params = None
    /\ \E i \in Idx : /\ PassesNightAndAltitude(i)
                      /\ ~result.mask[i]
                      /\ inp.sky.fli[i] = 5
    /\ \E i \in Idx : inp.sky.fli[i] = 100

\* C7: in every ObservabilityResult of a single-night evaluation the mask is as
\* long as the time grid and every true sample lies in [night_start, night_end].
C7_MaskWithinNight ==
    Returned =>
        /\ DOMAIN result.mask = DOMAIN result.time_grid
        /\ \A i \in DOMAIN result.mask :
               result.mask[i] =>
                   /\ result.night_start <= result.time_grid[i]
                   /\ result.time_grid[i] <= result.night_end

\* C8: in every returned ObservabilityResult observable_time is the grid
\* spacing times the number of true samples of the returned mask.
C8_ObservableTimeIsCount ==
    Returned =>
        result.observable_time =
            (result.time_grid[2] - result.time_grid[1])
            * Cardinality({i \in DOMAIN result.mask : result.mask[i]})

\* C8 witness: the transit filter cleared a mask that had observable samples
C8_Witness ==
    /\ CoreReturned
    /\ TransitRequired
    /\ EvaluateWithPlanet(None).observable_time > 0
    /\ result.observable_time = 0

\* C9: when a transit is required and T0 or the period is absent, or no transit
\* instant lies in [night_start, night_end], the mask is all false,
\* observable_time is 0 and is_observable is false.
C9_TransitFailsClosed ==
    (CoreReturned /\ TransitRequired /\ ~SomeTransitInNight) =>
        /\ \A i \in Idx : ~result.mask[i]
        /\ result.observable_time = 0
        /\ result.is_observable = FALSE

\* C9 witness: T0 is absent and min_duration is 0, on a night that is
\* observable without the requirement
C9_Witness ==
    /\ CoreReturned
    /\ TransitRequired
    /\ inp.planet_params.t0_jd = {}
    /\ inp.conditions.min_duration = 0
    /\ EvaluateWithPlanet(None).is_observable
    /\ EvaluateWithPlanet(None).observable_time > 0
    /\ ~result.is_observable

\* C10: when no transit is required (no planet parameters, or the flag unset),
\* or one is required and some transit instant lies in the night, the result is
\* the one computed from the airmass, Moon and night-window constraints alone.
C10_TransitIsBinary ==
    (CoreReturned /\ (~TransitRequired \/ SomeTransitInNight)) =>
        SameOutcome(result, EvaluateWithPlanet(None))

\* C10 witness: a required transit falls exactly on night_start and the night's
\* observable samples are kept
C10_Witness ==
    /\ CoreReturned
    /\ TransitRequired
    /\ SomeTransitInNight
    /\ SetMin(inp.planet_params.t0_jd) + 2 * SetMin(inp.planet_params.orbital_period_days)
           = result.night_start
    /\ result.observable_time > 0
    /\ result.is_observable

\* the transit filter leaves the mask of the inputs alone
NoTransitFilter == inp.planet_params = None \/ ~inp.planet_params.include_transit_in_observability

\* C26: the mask of compute_single_night_observability before the transit
\* filter is true at sample i exactly when night_start <= t[i] <= night_end,
\* altitude[i] is finite and at least arcsin(1/max_airmass), and moon_mask[i];
\* when every Moon separation is below min_moon_separation and
\* ignore_moon_if_fli_above is 1.0 the mask is all false and observable_time
\* is 0.
C26_MaskComposition ==
    CoreReturned =>
        /\ NoTransitFilter =>
               \A i \in Idx :
                   result.mask[i] <=>
                       (/\ PassesNightAndAltitude(i)
                        /\ MoonMask(inp.sky.moon_sep, inp.sky.fli, inp.conditions)[i])
        /\ (/\ inp.conditions.ignore_moon_if_fli_above = 100
            /\ \A i \in Idx : inp.sky.moon_sep[i] < inp.conditions.min_moon_separation) =>
               /\ result.mask = AllFalse
               /\ result.observable_time = 0

\* C26 witness: without a transit filter, a sample inside the night passed and
\* a sample outside it, high enough and far enough from the Moon, did not
C26_Witness ==
    /\ CoreReturned
    /\ NoTransitFilter
    /\ \E i \in Idx : result.mask[i]
    /\ \E j \in Idx :
           /\ ~result.mask[j]
           /\ result.time_grid[j] > result.night_end
           /\ inp.sky.altitude[j] = 30
           /\ inp.sky.moon_sep[j] = 30

\* C18: an empty observable window is a valid result: every single-night
\* evaluation returns normally; when every mask entry is false, observable_time
\* is 0 and min_airmass, min_moon_sep and mean_fli are the not-a-number
\* sentinel; when some entry is true, the three statistics are taken over the
\* masked samples and are not the sentinel.
C18_EmptyWindowIsValid ==
    (pc \in {"core", "legacy"}) =>
        /\ ~Raised(result)
        /\ "mask" \in DOMAIN result
        /\ IF Masked(result.mask) = {}
           THEN /\ result.observable_time = 0
                /\ result.min_airmass = NaN
                /\ result.min_moon_sep = NaN
                /\ result.mean_fli.n = 0
           ELSE /\ result.min_airmass # NaN
                /\ \E i \in Masked(result.mask) : result.min_airmass = Airmass(inp.sky.altitude[i])
                /\ \E i \in Masked(result.mask) : result.min_moon_sep = inp.sky.moon_sep[i]
                /\ result.mean_fli.n = Cardinality(Masked(result.mask))
                /\ result.mean_fli.sum = SumOver(inp.sky.fli, Masked(result.mask))

-----------------------------------------------------------------------------
(* Specification of the night-bounds resolution on drawn inputs *)

\* every tick of two consecutive days, event instants included
BoundsRefTimes == 0..(2 * Day)

InitBounds ==
    /\ inp \in [ref_time : BoundsRefTimes,
                night_definition : NightDefinitions \cup {UnknownDefinition}]
    /\ result = None
    /\ pc = "input"
    /\ night_cache = << >>
    /\ evalCalls = 0
    /\ cur = None
    /\ prev = None
    /\ app_state = None

ResolveNightBounds ==
    /\ pc = "input"
    /\ result' = _night_bounds(inp.ref_time, inp.night_definition)
    /\ pc' = "bounds"
    /\ UNCHANGED <<inp, night_cache, evalCalls, cur, prev, app_state>>

NextBounds == ResolveNightBounds

SpecBounds == InitBounds /\ [][NextBounds]_vars

-----------------------------------------------------------------------------
(* Properties of the night bounds (specification SpecBounds) *)

BoundsReturned == pc = "bounds" /\ ~Raised(result)

\* e is the last event of the set at or before t / the first at or after t
LastEventUpTo(events, e, t) ==
    e \in events /\ e <= t /\ ~(\E x \in events : e < x /\ x <= t)
FirstEventFrom(events, e, t) ==
    e \in events /\ e >= t /\ ~(\E x \in events : t <= x /\ x < e)

\* C11: for each of the three night definitions, a reference instant inside
\* night is bracketed by the bounds (start is the last evening event up to it,
\* end the first morning event after it, night_start <= ref < night_end); a
\* reference instant outside night precedes them (start is the first evening
\* event from it on, end the first morning event after start,
\* ref <= night_start < night_end).  In both cases night_end > night_start.
C11_NightBoundsPolicy ==
    BoundsReturned =>
        /\ inp.night_definition \in NightDefinitions
        /\ result.t_end > result.t_start
        /\ IF IsNight(inp.ref_time, inp.night_definition)
           THEN /\ LastEventUpTo(EveningEvents(inp.night_definition, inp.ref_time),
                                 result.t_start, inp.ref_time)
                /\ FirstEventFrom(MorningEvents(inp.night_definition, inp.ref_time),
                                  result.t_end, inp.ref_time)
                /\ result.t_start <= inp.ref_time
                /\ inp.ref_time < result.t_end
           ELSE /\ FirstEventFrom(EveningEvents(inp.night_definition, inp.ref_time),
                                  result.t_start, inp.ref_time)
                /\ FirstEventFrom(MorningEvents(inp.night_definition, result.t_start),
                                  result.t_end, result.t_start)
                /\ inp.ref_time <= result.t_start

\* C11 witness: a reference instant after midnight, inside the night that
\* began at sunset of the previous calendar day
C11_Witness ==
    /\ BoundsReturned
    /\ inp.night_definition = "Sunset to sunrise"
    /\ IsNight(inp.ref_time, inp.night_definition)
    /\ CivilDate(result.t_start) < CivilDate(inp.ref_time)
    /\ result.t_start < inp.ref_time

-----------------------------------------------------------------------------
(* RV precision: core/precision.py, config/instruments.py *)

\* Floats are modelled as exact fractions [n, d] in lowest terms, d > 0; the
\* square root is rounded down to hundredths.
Abs(x) == IF x < 0 THEN 0 - x ELSE x

RECURSIVE GCD(_, _)
GCD(a, b) == IF b = 0 THEN a ELSE GCD(b, a % b)

Rat(n, d) == [n |-> n \div GCD(Abs(n), d), d |-> d \div GCD(Abs(n), d)]

RMul(a, b) ==
    [n |-> (a.n \div GCD(Abs(a.n), b.d)) * (b.n \div GCD(Abs(b.n), a.d)),
     d |-> (a.d \div GCD(Abs(b.n), a.d)) * (b.d \div GCD(Abs(a.n), b.d))]

\* a / b; Python raises ZeroDivisionError when b is 0
RDiv(a, b) ==
    IF b.n = 0 THEN Raise("ZeroDivisionError")
    ELSE IF b.n > 0 THEN RMul(a, [n |-> b.d, d |-> b.n])
    ELSE RMul(a, [n |-> 0 - b.d, d |-> 0 - b.n])

\* the largest r in lo..hi with r * r <= x
RECURSIVE ISqrtBetween(_, _, _)
ISqrtBetween(x, lo, hi) ==
    IF lo = hi THEN lo
    ELSE LET mid == (lo + hi + 1) \div 2
         IN  IF mid * mid <= x THEN ISqrtBetween(x, mid, hi)
             ELSE ISqrtBetween(x, lo, mid - 1)

\* math.sqrt: ValueError (math domain error) on a negative argument
MathSqrt(q) ==
    IF q.n < 0 THEN Raise("ValueError")
    ELSE Rat(ISqrtBetween((q.n * 10000) \div q.d, 0, 10000), 100)

\* 10.0 ** (-0.2 * dmag), for magnitude differences that are multiples of 5
MagFactor(dmag) ==
    IF dmag >= 0 THEN Rat(1, 10 ^ (dmag \div 5)) ELSE Rat(10 ^ ((0 - dmag) \div 5), 1)

\* q ** 1.5 for q > 0
Pow15(q) == RMul(q, MathSqrt(q))

\* dict.get(key): None when the key is missing
DictGet(dict, key) == IF key \in DOMAIN dict THEN dict[key] ELSE None

RVEstimation(ref_exptime, ref_mag, ref_snr, ref_rv_precision) ==
    [ref_exptime |-> ref_exptime, ref_mag |-> ref_mag,
     ref_snr |-> ref_snr, ref_rv_precision |-> ref_rv_precision]

\* rv_estimation is {} for None, {model} otherwise; the diameter is a fraction
Instrument(name, resolution, telescope_diameter, rv_estimation) ==
    [name |-> name, resolution |-> resolution,
     telescope_diameter |-> telescope_diameter, rv_estimation |-> rv_estimation]

EspressoModel ==
    RVEstimation(600, 10,
                 "G2" :> Rat(112456, 1000) @@ "K2" :> Rat(11319, 100) @@
                 "K7" :> Rat(114972, 1000) @@ "M2" :> Rat(110771, 1000),
                 "G2" :> Rat(53, 100) @@ "K2" :> Rat(53, 100) @@
                 "K7" :> Rat(52, 100) @@ "M2" :> Rat(54, 100))

INSTRUMENTS ==
    "EXOTICA"      :> Instrument("EXOTICA", 65000, Rat(123, 100), {}) @@
    "CORALIE"      :> Instrument("CORALIE", 60000, Rat(12, 10), {}) @@
    "HARPS"        :> Instrument("HARPS", 115000, Rat(36, 10), {}) @@
    "HARPS-N"      :> Instrument("HARPS-N", 115000, Rat(358, 100), {}) @@
    "ESPRESSO"     :> Instrument("ESPRESSO", 140000, Rat(82, 10), {EspressoModel}) @@
    "KPF"          :> Instrument("KPF", 98000, Rat(10, 1), {}) @@
    "CARMENES-VIS" :> Instrument("CARMENES-VIS", 94600, Rat(325, 100), {}) @@
    "NIRPS-HA"     :> Instrument("NIRPS-HA", 75000, Rat(36, 10), {}) @@
    "NIRPS-HE"     :> Instrument("NIRPS-HE", 100000, Rat(36, 10), {})

The(S) == CHOOSE x \in S : TRUE

\* variant: the fallback takes ESPRESSO's model but keeps the instrument itself
\* as the base instrument
SelectBaseModelOwnBase(catalog, instrument) ==
    IF instrument.rv_estimation # {}
    THEN [model |-> The(instrument.rv_estimation), base_instrument |-> instrument]
    ELSE IF "ESPRESSO" \notin DOMAIN catalog
    THEN None
    ELSE IF catalog["ESPRESSO"].rv_estimation = {}
    THEN None
    ELSE [model |-> The(catalog["ESPRESSO"].rv_estimation), base_instrument |-> instrument]

\* lines 165-175: the model and base instrument, None when there is no model.
\* catalog is the INSTRUMENTS dict the function reads.
SelectBaseModel(catalog, instrument) ==
    IF instrument.rv_estimation # {}
    THEN [model |-> The(instrument.rv_estimation), base_instrument |-> instrument]
    ELSE IF "ESPRESSO" \notin DOMAIN catalog
    THEN None
    ELSE IF catalog["ESPRESSO"].rv_estimation = {}
    THEN None
    ELSE [model |-> The(catalog["ESPRESSO"].rv_estimation),
          base_instrument |-> catalog["ESPRESSO"]]

\* lines 203-207
SnrScaling(snr_ref, D, D_ref, time_factor, mag_factor) ==
    RMul(RMul(RMul(snr_ref, RDiv(D, D_ref)), time_factor), mag_factor)

\* lines 216-217
RvScaling(rv_ref, snr_ref, snr, R_ref, R) ==
    RMul(RMul(rv_ref, RDiv(snr_ref, snr)), Pow15(Rat(R_ref, R)))

\* lines 209-229, snr being computed
PrecisionOutput(snr, snr_ref, rv_ref, base_instrument, instrument) ==
    IF snr.n <= 0
    THEN None
    ELSE [snr          |-> snr,
          rv_precision |-> RvScaling(rv_ref, snr_ref, snr, base_instrument.resolution,
                                     instrument.resolution),
          snr_ref      |-> snr_ref,
          rv_ref       |-> rv_ref,
          scaled_from  |-> base_instrument.name]

\* lines 187-229, the reference values being present
ScaleFromReference(snr_ref, rv_ref, model, base_instrument, instrument, vmag, time_factor) ==
    IF Raised(time_factor)
    THEN time_factor
    ELSE PrecisionOutput(SnrScaling(snr_ref, instrument.telescope_diameter,
                                    base_instrument.telescope_diameter, time_factor,
                                    MagFactor(vmag - model.ref_mag)),
                         snr_ref, rv_ref, base_instrument, instrument)

\* variant: the time factor is the exposure ratio itself, not its square root
PrecisionFromModelLinearTime(model, base_instrument, instrument, spectral_type, vmag, exposure_time) ==
    IF \/ DictGet(model.ref_snr, spectral_type) = None
       \/ DictGet(model.ref_rv_precision, spectral_type) = None
    THEN None
    ELSE ScaleFromReference(DictGet(model.ref_snr, spectral_type),
                            DictGet(model.ref_rv_precision, spectral_type),
                            model, base_instrument, instrument, vmag,
                            RDiv(exposure_time, Rat(model.ref_exptime, 1)))

\* lines 181-229
PrecisionFromModel(model, base_instrument, instrument, spectral_type, vmag, exposure_time) ==
    IF \/ DictGet(model.ref_snr, spectral_type) = None
       \/ DictGet(model.ref_rv_precision, spectral_type) = None
    THEN None
    ELSE ScaleFromReference(DictGet(model.ref_snr, spectral_type),
                            DictGet(model.ref_rv_precision, spectral_type),
                            model, base_instrument, instrument, vmag,
                            MathSqrt(RDiv(exposure_time, Rat(model.ref_exptime, 1))))

\* exposure_time is a fraction of seconds, vmag a whole magnitude
compute_rv_precision(catalog, instrument, spectral_type, vmag, exposure_time) ==
    IF SelectBaseModel(catalog, instrument) = None
    THEN None
    ELSE PrecisionFromModel(SelectBaseModel(catalog, instrument).model,
                            SelectBaseModel(catalog, instrument).base_instrument,
                            instrument, spectral_type, vmag, exposure_time)

-----------------------------------------------------------------------------
(* Specification of the RV precision computation on drawn inputs *)

\* an instrument with a model of its own that lacks some reference values
OwnModelInstrument ==
    Instrument("LABSPEC", 70000, Rat(41, 10),
               {RVEstimation(900, 10,
                             "G2" :> Rat(50, 1) @@ "K2" :> None,
                             "G2" :> Rat(1, 1) @@ "K2" :> Rat(1, 1) @@ "M2" :> Rat(2, 1))})

PrecisionInstruments ==
    {INSTRUMENTS["HARPS"], INSTRUMENTS["KPF"], INSTRUMENTS["ESPRESSO"], OwnModelInstrument}

\* the catalog as configured, without the fallback entry, and with a fallback
\* entry that has no model
Catalogs ==
    { INSTRUMENTS,
      [k \in DOMAIN INSTRUMENTS \ {"ESPRESSO"} |-> INSTRUMENTS[k]],
      [INSTRUMENTS EXCEPT !["ESPRESSO"].rv_estimation = {}] }

SpectralTypes == {"G2", "K2", "K7", "M2", "F5"}
Magnitudes == {5, 10, 15}
ExposureTimes ==
    {Rat(0 - 600, 1), Rat(0, 1), Rat(60, 1), Rat(600, 1), Rat(1200, 1), Rat(2400, 1)}

InitPrecision ==
    /\ inp \in [catalog : Catalogs, instrument : PrecisionInstruments,
                spectral_type : SpectralTypes, vmag : Magnitudes,
                exposure_time : ExposureTimes]
    /\ result = None
    /\ pc = "input"
    /\ night_cache = << >>
    /\ evalCalls = 0
    /\ cur = None
    /\ prev = None
    /\ app_state = None

ComputeRvPrecision ==
    /\ pc = "input"
    /\ result' = compute_rv_precision(inp.catalog, inp.instrument, inp.spectral_type,
                                      inp.vmag, inp.exposure_time)
    /\ pc' = "precision"
    /\ UNCHANGED <<inp, night_cache, evalCalls, cur, prev, app_state>>

NextPrecision == ComputeRvPrecision

SpecPrecision == InitPrecision /\ [][NextPrecision]_vars

-----------------------------------------------------------------------------
(* Properties of the RV precision (specification SpecPrecision) *)

PrecisionReturned == pc = "precision" /\ "scaled_from" \in DOMAIN result

HasOwnModel == inp.instrument.rv_estimation # {}
FallbackHasModel ==
    "ESPRESSO" \in DOMAIN inp.catalog /\ inp.catalog["ESPRESSO"].rv_estimation # {}

\* the result is the scaling of model `model` of reference instrument `base`
ScaledFrom(model, base) ==
    /\ result.scaled_from = base.name
    /\ result.snr_ref = DictGet(model.ref_snr, inp.spectral_type)
    /\ result.rv_ref = DictGet(model.ref_rv_precision, inp.spectral_type)
    /\ result.snr =
           SnrScaling(result.snr_ref, inp.instrument.telescope_diameter,
                      base.telescope_diameter,
                      MathSqrt(RDiv(inp.exposure_time, Rat(model.ref_exptime, 1))),
                      MagFactor(inp.vmag - model.ref_mag))
    /\ result.rv_precision =
           RvScaling(result.rv_ref, result.snr_ref, result.snr, base.resolution,
                     inp.instrument.resolution)

\* C19: a result of compute_rv_precision is scaled from the instrument's own
\* model, diameter and resolution, with scaled_from its own name, when the
\* instrument has a model, and otherwise from the model, diameter and
\* resolution of the fallback instrument ESPRESSO, with scaled_from its name.
C19_ModelSelection ==
    PrecisionReturned =>
        IF HasOwnModel
        THEN ScaledFrom(The(inp.instrument.rv_estimation), inp.instrument)
        ELSE /\ FallbackHasModel
             /\ result.scaled_from = "ESPRESSO"
             /\ ScaledFrom(EspressoModel, INSTRUMENTS["ESPRESSO"])

\* C19 witness: HARPS, without a model, got a result scaled from ESPRESSO by
\* the diameter ratio 3.6 / 8.2
C19_Witness ==
    /\ PrecisionReturned
    /\ inp.instrument.name = "HARPS"
    /\ result.scaled_from = "ESPRESSO"
    /\ inp.exposure_time = Rat(600, 1)
    /\ inp.vmag = 10
    /\ result.snr = RMul(result.snr_ref, Rat(36, 82))

\* C20: compute_rv_precision never raises: it returns None when neither the
\* instrument nor the fallback has a model, when the spectral type has no
\* reference SNR or RV precision in the chosen model, and when the SNR is <= 0
\* (zero or negative exposure time included); a result has snr > 0 and
\* rv_precision > 0.
C20_NotComputableIsNone ==
    (pc = "precision") =>
        /\ ~Raised(result)
        /\ (~HasOwnModel /\ ~FallbackHasModel) => result = None
        /\ (SelectBaseModel(inp.catalog, inp.instrument) # None /\
            (\/ DictGet(SelectBaseModel(inp.catalog, inp.instrument).model.ref_snr,
                        inp.spectral_type) = None
             \/ DictGet(SelectBaseModel(inp.catalog, inp.instrument).model.ref_rv_precision,
                        inp.spectral_type) = None)) => result = None
        /\ inp.exposure_time.n <= 0 => result = None
        /\ result # None => (result.snr.n > 0 /\ result.rv_precision.n > 0)

\* a < b for fractions a > 0 and b > 0
RLess(a, b) == RDiv(b, a).n > RDiv(b, a).d

\* the modelled square root of q is exact
ExactRoot(q) == q.n >= 0 /\ RMul(MathSqrt(q), MathSqrt(q)) = q

\* the call of the current state repeated with exposure time t
PrecisionWithExposure(t) ==
    compute_rv_precision(inp.catalog, inp.instrument, inp.spectral_type, inp.vmag, t)

\* exposure time of the current call over the reference exposure time
ExposureRatio ==
    RDiv(inp.exposure_time,
         Rat(SelectBaseModel(inp.catalog, inp.instrument).model.ref_exptime, 1))

\* r2 is r1 with the SNR multiplied by f and the RV precision divided by f
ScaledBy(r1, r2, f) ==
    /\ r2.snr = RMul(r1.snr, f)
    /\ r2.rv_precision = RDiv(r1.rv_precision, f)

\* C21: all else fixed, the SNR grows as the square root of the exposure time
\* and the RV precision as its inverse: a longer exposure has a strictly larger
\* SNR and a strictly smaller RV precision, k times the exposure multiplies the
\* SNR by sqrt(k) and divides the RV precision by sqrt(k) (k = 2 and k = 4;
\* compared where the modelled roots are exact).
C21_ExposureScaling ==
    PrecisionReturned =>
        \A t \in ExposureTimes :
            (t.n > 0 /\ RLess(inp.exposure_time, t)) =>
                /\ PrecisionWithExposure(t) # None
                /\ RLess(result.snr, PrecisionWithExposure(t).snr)
                /\ RLess(PrecisionWithExposure(t).rv_precision, result.rv_precision)
                /\ \A k \in {2, 4} :
                       (/\ t = RMul(inp.exposure_time, Rat(k, 1))
                        /\ ExactRoot(ExposureRatio)
                        /\ ExactRoot(RMul(ExposureRatio, Rat(k, 1)))) =>
                           ScaledBy(result, PrecisionWithExposure(t), MathSqrt(Rat(k, 1)))

\* C21 witness: HARPS at 600 s got a result; at 1200 s the SNR is sqrt(2) times
\* and at 2400 s twice as large, the RV precision half
C21_Witness ==
    /\ PrecisionReturned
    /\ inp.instrument.name = "HARPS"
    /\ inp.exposure_time = Rat(600, 1)
    /\ PrecisionWithExposure(Rat(1200, 1)).snr = RMul(result.snr, MathSqrt(Rat(2, 1)))
    /\ PrecisionWithExposure(Rat(2400, 1)).snr = RMul(result.snr, Rat(2, 1))
    /\ PrecisionWithExposure(Rat(2400, 1)).rv_precision = RDiv(result.rv_precision, Rat(2, 1))

-----------------------------------------------------------------------------
(* AppState drivers: core/observability.py, core/precision.py *)

\* driver runs in one behaviour
MaxDriverRuns == 2
\* samples of the exposure-time grid of recompute_precision
PrecisionSamples == 60

YEAR_OBS_NIGHTSTEP == 7

\* Python's range(start, stop, step) for step > 0, as a sequence
PyRange(start, stop, step) ==
    [i \in 1..((stop - start + step - 1) \div step) |-> start + (i - 1) * step]

\* Time(datetime(d.year, d.month, d.day, 12, 0, 0)) for calendar day d
NoonOf(d) == d * Day + 12 * Hour

\* ref_date + timedelta(days=i) for i in offsets, each at 12:00
NoonsAround(ref_date, offsets) ==
    [i \in DOMAIN offsets |-> NoonOf(ref_date + offsets[i])]

\* variant: the upper end of the range is left out
MonthlyRefTimesOpenEnd(reference_time) ==
    NoonsAround(CivilDate(reference_time), PyRange(0 - 15, 15, 1))

\* lines 384-391
MonthlyRefTimes(reference_time) ==
    NoonsAround(CivilDate(reference_time), PyRange(0 - 15, 16, 1))

\* variant: the range starts at the reference date's half span plus one
YearlyRefTimesShifted(ref_time, step_days, span_days) ==
    NoonsAround(CivilDate(ref_time),
                PyRange(0 - (span_days \div 2) - 1, (span_days \div 2) + 1, step_days))

\* lines 406-420
_yearly_reference_times(ref_time, step_days, span_days) ==
    NoonsAround(CivilDate(ref_time),
                PyRange(0 - (span_days \div 2), (span_days \div 2) + 1, step_days))

\* the target as the drivers use it: sky stands for its coordinates (what the
\* ephemeris answers for it); vmag and sptype are {} when None
Star(name, sky, vmag, sptype) == [name |-> name, sky |-> sky, vmag |-> vmag, sptype |-> sptype]

MultiNightObservability(nights) == [nights |-> nights]

InputsMissing(a) == a.star = {} \/ a.instrument = {} \/ a.conditions = {}

\* what a driver did: its return value, the exception it left with, the night
\* cache and evaluator counter after it, and the AppState after it
DriverOutcome(ret, raised, cache, calls, state) ==
    [ret |-> ret, raised |-> raised, cache |-> cache, calls |-> calls, state |-> state]

\* lines 332-342, res being what the evaluator gave
StoreObservability(a, cache, calls, res) ==
    IF Raised(res)
    THEN DriverOutcome(None, {res.raised}, cache, calls, a)
    ELSE DriverOutcome(res, {}, cache, calls, [a EXCEPT !.observability = res])

recompute_observability(a, cache, calls) ==
    IF InputsMissing(a)
    THEN DriverOutcome(None, {}, cache, calls, a)
    ELSE StoreObservability(a, cache, calls + 1,
             [oid |-> calls + 1] @@
             compute_single_night_observability(The(a.star).sky, a.reference_time,
                                                The(a.conditions), a.night_definition,
                                                a.planet_params))

\* lines 369-377, m being the outcome of the multi-night loop
MultiNightReturn(m) ==
    [ret |-> IF m.raised # {} THEN None ELSE MultiNightObservability(m.nights),
     raised |-> m.raised, cache |-> m.cache, calls |-> m.calls]

recompute_multi_night_observability_driver(a, cache, calls, ref_times) ==
    IF InputsMissing(a)
    THEN [ret |-> None, raised |-> {}, cache |-> cache, calls |-> calls]
    ELSE MultiNightReturn(
             compute_multi_night_observability(cache, calls, The(a.star).sky, ref_times,
                                               The(a.conditions), a.night_definition,
                                               a.planet_params))

\* lines 393-399: the driver's result is stored whatever it is
StoreMonthly(a, r) ==
    IF r.raised # {}
    THEN DriverOutcome(None, r.raised, r.cache, r.calls, a)
    ELSE DriverOutcome(r.ret, {}, r.cache, r.calls, [a EXCEPT !.monthly_observability = r.ret])

recompute_monthly_observability(a, cache, calls) ==
    StoreMonthly(a, recompute_multi_night_observability_driver(
                        a, cache, calls, MonthlyRefTimes(a.reference_time)))

\* lines 427-433
StoreYearly(a, r) ==
    IF r.raised # {}
    THEN DriverOutcome(None, r.raised, r.cache, r.calls, a)
    ELSE DriverOutcome(r.ret, {}, r.cache, r.calls, [a EXCEPT !.yearly_observability = r.ret])

recompute_yearly_observability(a, cache, calls) ==
    StoreYearly(a, recompute_multi_night_observability_driver(
                       a, cache, calls,
                       _yearly_reference_times(a.reference_time, YEAR_OBS_NIGHTSTEP, 365)))

\* np.nan among values that are fractions
FloatNaN == [nan |-> TRUE]

\* np.linspace(a, b, n) for whole a and b
Linspace(a, b, n) == [i \in 1..n |-> Rat(a * (n - 1) + (i - 1) * (b - a), n - 1)]

\* variant: the breakpoints belong to the shorter range
PrecisionTimesLateBreak(t_req) ==
    Linspace(60,
             IF t_req <= 15 * 60 THEN 30 * 60
             ELSE IF t_req <= 30 * 60 THEN 60 * 60
             ELSE 3 * t_req,
             PrecisionSamples)

\* lines 30-40
PrecisionTimes(t_req) ==
    Linspace(60,
             IF t_req < 15 * 60 THEN 30 * 60
             ELSE IF t_req < 30 * 60 THEN 60 * 60
             ELSE 3 * t_req,
             PrecisionSamples)

\* compute_rv_precision for the star and instrument of AppState a
PrecisionAt(a, t) ==
    compute_rv_precision(INSTRUMENTS, The(a.instrument), The(The(a.star).sptype),
                         The(The(a.star).vmag), t)

\* lines 45-63: the SNR or RV curve over the grid
PrecisionCurve(a, times, field) ==
    [i \in DOMAIN times |->
        IF PrecisionAt(a, times[i]) = None THEN FloatNaN ELSE PrecisionAt(a, times[i])[field]]

\* np.pi
Pi == Rat(31416, 10000)

\* a - b
RSub(a, b) == Rat(a.n * b.d - b.n * a.d, a.d * b.d)

\* np.sqrt: nan on a negative argument, rounded down to hundredths otherwise
NpSqrt(q) ==
    IF q.n < 0 THEN FloatNaN
    ELSE Rat(ISqrtBetween((q.n * 10000) \div q.d, 0, 10000), 100)

\* lines 258-265. stellar_mass_msun is {} when None: None * u.M_sun is a
\* TypeError. K = scale * geometry, where scale = (2 pi G / P)^(1/3) * Mp /
\* Mstar^(2/3) is left uninterpreted (a positive term over the three
\* arguments) and geometry = sin_i / sqrt(1 - e^2) is computed; both callers
\* pass an eccentricity below 1.
compute_rv_semi_amplitude(planet_mass_mjup, orbital_period_days, stellar_mass_msun, sin_i, eccentricity) ==
    IF stellar_mass_msun = {}
    THEN Raise("TypeError")
    ELSE [scale    |-> <<planet_mass_mjup, orbital_period_days, The(stellar_mass_msun)>>,
          geometry |-> RDiv(sin_i, NpSqrt(RSub(Rat(1, 1), RMul(eccentricity, eccentricity))))]

\* the two cases as a dict, the exception when an evaluation raised
TwoCases(K_opt, K_real) ==
    IF Raised(K_opt) THEN K_opt
    ELSE IF Raised(K_real) THEN K_real
    ELSE [optimistic |-> K_opt, realistic |-> K_real]

\* sin(pi / 4) to four decimals
SinQuarterPi == Rat(7071, 10000)

\* variant: the realistic case takes sin(pi/4) for sin_i
TwoCasesSinOfQuarterPi(planet_mass_mjup, orbital_period_days, stellar_mass_msun) ==
    TwoCases(compute_rv_semi_amplitude(planet_mass_mjup, orbital_period_days,
                                       stellar_mass_msun, Rat(1, 1), Rat(0, 1)),
             compute_rv_semi_amplitude(planet_mass_mjup, orbital_period_days,
                                       stellar_mass_msun, SinQuarterPi, Rat(2, 10)))

\* lines 267-301: sin_i_mean = np.pi / 4.0, e_median = 0.2
compute_rv_amplitudes_two_cases(planet_mass_mjup, orbital_period_days, stellar_mass_msun) ==
    TwoCases(compute_rv_semi_amplitude(planet_mass_mjup, orbital_period_days,
                                       stellar_mass_msun, Rat(1, 1), Rat(0, 1)),
             compute_rv_semi_amplitude(planet_mass_mjup, orbital_period_days,
                                       stellar_mass_msun, RDiv(Pi, Rat(4, 1)), Rat(2, 10)))

\* lines 320-347: K / sigma(t) per grid time, None when no value is finite
SignificanceValues(a, times, K_value) ==
    [i \in DOMAIN times |->
        IF PrecisionAt(a, times[i]) = None
        THEN FloatNaN
        ELSE IF PrecisionAt(a, times[i]).rv_precision.n <= 0
        THEN FloatNaN
        ELSE [K |-> K_value, sigma |-> PrecisionAt(a, times[i]).rv_precision]]

\* np.array(sig_vals): the returned array, as a record holding its entries
NpArray(values) == [array |-> values]

\* the grid positions at which compute_rv_precision raises
PrecisionRaisedAt(a, times) == {i \in DOMAIN times : Raised(PrecisionAt(a, times[i]))}

\* lines 303-347; an exception of compute_rv_precision leaves the loop
compute_detection_significance_curve(a, times, K_value) ==
    IF K_value = None
    THEN None
    ELSE IF PrecisionRaisedAt(a, times) # {}
    THEN PrecisionAt(a, times[SetMin(PrecisionRaisedAt(a, times))])
    ELSE IF \A i \in DOMAIN times : SignificanceValues(a, times, K_value)[i] = FloatNaN
    THEN None
    ELSE NpArray(SignificanceValues(a, times, K_value))

\* lines 82-92
KCases(pp) ==
    IF pp = None THEN None
    ELSE IF pp.planet_mass_mjup = {} \/ pp.orbital_period_days = {} THEN None
    ELSE compute_rv_amplitudes_two_cases(The(pp.planet_mass_mjup),
                                         The(pp.orbital_period_days), pp.stellar_mass_msun)

\* lines 97-118
Detectability(a, times, K_cases) ==
    IF K_cases = None \/ Raised(K_cases) THEN None
    ELSE IF Raised(compute_detection_significance_curve(a, times, K_cases.optimistic))
    THEN compute_detection_significance_curve(a, times, K_cases.optimistic)
    ELSE [optimistic |-> compute_detection_significance_curve(a, times, K_cases.optimistic),
          realistic  |-> compute_detection_significance_curve(a, times, K_cases.realistic)]

\* lines 123-130
PrecisionResult(a, times, req, K_cases) ==
    [times         |-> times,
     snr_curve     |-> PrecisionCurve(a, times, "snr"),
     rv_curve      |-> PrecisionCurve(a, times, "rv_precision"),
     requested     |-> req,
     K_cases       |-> K_cases,
     detectability |-> Detectability(a, times, K_cases)]

\* lines 68-132, req being the precision at the requested exposure time; an
\* exception of the requested point or of the amplitudes leaves AppState alone
StorePrecision(a, cache, calls, req, res) ==
    IF Raised(req)
    THEN DriverOutcome(None, {req.raised}, cache, calls, a)
    ELSE IF req = None
    THEN DriverOutcome(None, {}, cache, calls, [a EXCEPT !.precision_result = None])
    ELSE IF Raised(res.K_cases)
    THEN DriverOutcome(None, {res.K_cases.raised}, cache, calls, a)
    ELSE IF Raised(res.detectability)
    THEN DriverOutcome(None, {res.detectability.raised}, cache, calls, a)
    ELSE DriverOutcome(res, {}, cache, calls, [a EXCEPT !.precision_result = res])

recompute_precision(a, cache, calls) ==
    IF a.star = {} \/ a.instrument = {}
    THEN DriverOutcome(None, {}, cache, calls, [a EXCEPT !.precision_result = None])
    ELSE IF The(a.star).vmag = {} \/ The(a.star).sptype = {}
    THEN DriverOutcome(None, {}, cache, calls, [a EXCEPT !.precision_result = None])
    ELSE StorePrecision(a, cache, calls, PrecisionAt(a, Rat(a.exposure_time, 1)),
                        PrecisionResult(a, PrecisionTimes(a.exposure_time),
                                        PrecisionAt(a, Rat(a.exposure_time, 1)),
                                        KCases(a.planet_params)))

-----------------------------------------------------------------------------
(* Specification of the recompute drivers on one AppState *)

\* a bright G2 star high in the sky, and the same star without a magnitude
DriverStar == Star("HD 1", SkyHigh, {10}, {"G2"})
DriverStarNoVmag == Star("HD 1", SkyHigh, {}, {"G2"})

\* planet parameters with a mass, no transit required
DriverPlanet ==
    [include_transit_in_observability |-> FALSE, t0_jd |-> {}, orbital_period_days |-> {10},
     planet_mass_mjup |-> {1}, stellar_mass_msun |-> {1}]

\* 02:00 of day 1 and noon of day 1
DriverRefTimes == {Day + 2 * Hour, Day + 12 * Hour}

\* AppState with its inputs chosen or absent and nothing computed yet
InitDrivers ==
    /\ app_state \in [star : {{}, {DriverStar}, {DriverStarNoVmag}},
                      instrument : {{}, {INSTRUMENTS["HARPS"]}},
                      conditions : {{}, {DefaultConditions}},
                      reference_time : DriverRefTimes,
                      night_definition : {"Nautical twilight"},
                      planet_params : {DriverPlanet},
                      exposure_time : {600},
                      observability : {None},
                      monthly_observability : {None},
                      yearly_observability : {None},
                      precision_result : {None}]
    /\ night_cache = << >>
    /\ evalCalls = 0
    /\ cur = None
    /\ prev = None
    /\ inp = None
    /\ result = None
    /\ pc = "drivers"

RunsSoFar == IF cur = None THEN 0 ELSE cur.run

\* driver `op` ran on the current AppState, generated ref_times, had outcome o
DriverRan(op, ref_times, o) ==
    /\ RunsSoFar < MaxDriverRuns
    /\ night_cache' = o.cache
    /\ evalCalls' = o.calls
    /\ app_state' = o.state
    /\ cur' = [op |-> op, run |-> RunsSoFar + 1, ref_times |-> ref_times,
               ret |-> o.ret, raised |-> o.raised,
               state_before |-> app_state, cache_before |-> night_cache]
    /\ prev' = cur
    /\ UNCHANGED <<inp, result, pc>>

RecomputeObservability ==
    DriverRan("recompute_observability", <<app_state.reference_time>>,
              recompute_observability(app_state, night_cache, evalCalls))

RecomputeMonthly ==
    DriverRan("recompute_monthly_observability", MonthlyRefTimes(app_state.reference_time),
              recompute_monthly_observability(app_state, night_cache, evalCalls))

RecomputeYearly ==
    DriverRan("recompute_yearly_observability",
              _yearly_reference_times(app_state.reference_time, YEAR_OBS_NIGHTSTEP, 365),
              recompute_yearly_observability(app_state, night_cache, evalCalls))

RecomputePrecision ==
    DriverRan("recompute_precision", << >>,
              recompute_precision(app_state, night_cache, evalCalls))

\* tabs/controls.py, _update_star_state: the star is replaced, or set to None
\* when the coordinates typed in are not valid
UpdateStarState ==
    \E s \in {{}, {DriverStar}, {DriverStarNoVmag}} :
        /\ s # app_state.star
        /\ app_state' = [app_state EXCEPT !.star = s]
        /\ UNCHANGED <<night_cache, evalCalls, cur, prev, inp, result, pc>>

NextDrivers ==
    \/ RecomputeObservability
    \/ RecomputeMonthly
    \/ RecomputeYearly
    \/ RecomputePrecision
    \/ UpdateStarState

SpecDrivers == InitDrivers /\ [][NextDrivers]_vars

-----------------------------------------------------------------------------
(* Properties of the drivers (specification SpecDrivers) *)

DriverCalled(op) == pc = "drivers" /\ cur # None /\ cur.op = op

\* day offset of generated instant i from the civil date of the reference time
DayOffset(i) == CivilDate(cur.ref_times[i]) - CivilDate(cur.state_before.reference_time)

AtNoon(t) == t % Day = 12 * Hour

\* C13: the month scope generates exactly 31 reference instants, one per
\* calendar day at day offsets -15..+15 from the civil date of the reference
\* time (both ends and offset 0 included), each at 12:00, in ascending order.
C13_MonthScope ==
    DriverCalled("recompute_monthly_observability") =>
        /\ Len(cur.ref_times) = 31
        /\ {DayOffset(i) : i \in 1..Len(cur.ref_times)} = (0 - 15)..15
        /\ \A i \in 1..Len(cur.ref_times) : AtNoon(cur.ref_times[i])
        /\ \A i \in 1..(Len(cur.ref_times) - 1) :
               cur.ref_times[i + 1] = cur.ref_times[i] + Day

\* C13 witness: the monthly driver ran at 02:00 of day 1 with all inputs and
\* returned one night per generated instant, the 16th being noon of day 1
C13_Witness ==
    /\ DriverCalled("recompute_monthly_observability")
    /\ cur.state_before.reference_time = Day + 2 * Hour
    /\ cur.ret # None
    /\ Len(cur.ret.nights) = Len(cur.ref_times)
    /\ cur.ref_times[16] = Day + 12 * Hour

\* C14: the year scope generates 53 reference instants at day offsets
\* -182, -175, ..., +182 from the civil date of the reference time (step 7,
\* both ends and offset 0 included), each at 12:00, in ascending order.
C14_YearScope ==
    DriverCalled("recompute_yearly_observability") =>
        /\ Len(cur.ref_times) = 53
        /\ DayOffset(1) = 0 - 182
        /\ DayOffset(Len(cur.ref_times)) = 182
        /\ \E i \in 1..Len(cur.ref_times) : DayOffset(i) = 0
        /\ \A i \in 1..Len(cur.ref_times) : AtNoon(cur.ref_times[i])
        /\ \A i \in 1..(Len(cur.ref_times) - 1) :
               cur.ref_times[i + 1] = cur.ref_times[i] + 7 * Day

\* C14 witness: the yearly driver ran at 02:00 of day 1 with all inputs and
\* returned one night per generated instant, the 27th being noon of day 1
C14_Witness ==
    /\ DriverCalled("recompute_yearly_observability")
    /\ cur.state_before.reference_time = Day + 2 * Hour
    /\ cur.ret # None
    /\ Len(cur.ret.nights) = Len(cur.ref_times)
    /\ cur.ref_times[27] = Day + 12 * Hour

\* C17: a recompute driver called while the star, the instrument or the
\* conditions is absent returns None without raising, leaves the night cache
\* alone and leaves the stored results of AppState (observability,
\* monthly_observability, yearly_observability, precision_result) as they were.
C17_MissingInputLeavesOutput ==
    (pc = "drivers" /\ cur # None /\ InputsMissing(cur.state_before)) =>
        /\ cur.ret = None
        /\ cur.raised = {}
        /\ night_cache = cur.cache_before
        /\ app_state.observability = cur.state_before.observability
        /\ app_state.monthly_observability = cur.state_before.monthly_observability
        /\ app_state.yearly_observability = cur.state_before.yearly_observability
        /\ app_state.precision_result = cur.state_before.precision_result

-----------------------------------------------------------------------------
(* Specification of the two semi-amplitude cases on drawn planet parameters *)

PlanetMasses == {1, 2, 3, 5, 10}
OrbitalPeriods == {1, 3, 10, 100, 365}
\* the stellar mass, {} when it is None
StellarMasses == {{}, {1}, {2}, {3}}

InitAmplitudes ==
    /\ inp \in [planet_mass_mjup : PlanetMasses, orbital_period_days : OrbitalPeriods,
                stellar_mass_msun : StellarMasses]
    /\ result = None
    /\ pc = "input"
    /\ night_cache = << >>
    /\ evalCalls = 0
    /\ cur = None
    /\ prev = None
    /\ app_state = None

ComputeAmplitudes ==
    /\ pc = "input"
    /\ result' = compute_rv_amplitudes_two_cases(inp.planet_mass_mjup, inp.orbital_period_days,
                                                 inp.stellar_mass_msun)
    /\ pc' = "amplitudes"
    /\ UNCHANGED <<inp, night_cache, evalCalls, cur, prev, app_state>>

NextAmplitudes == ComputeAmplitudes

SpecAmplitudes == InitAmplitudes /\ [][NextAmplitudes]_vars

AmplitudesReturned == pc = "amplitudes" /\ ~Raised(result)

\* both cases are present and share the scale of the drawn parameters
BothCases ==
    /\ DOMAIN result = {"optimistic", "realistic"}
    /\ result.optimistic.scale =
           <<inp.planet_mass_mjup, inp.orbital_period_days, The(inp.stellar_mass_msun)>>
    /\ result.realistic.scale = result.optimistic.scale
    /\ result.optimistic.geometry = Rat(1, 1)

\* K_realistic = K_optimistic * s / sqrt(1 - 0.2^2)
RealisticIs(s) ==
    result.realistic.geometry =
        RDiv(RMul(result.optimistic.geometry, s),
             NpSqrt(RSub(Rat(1, 1), RMul(Rat(2, 10), Rat(2, 10)))))

\* C22, as the code has it: compute_rv_amplitudes_two_cases produces both cases
\* together for a positive planet mass, period and stellar mass, the optimistic
\* one with sin_i = 1 and e = 0 and the realistic one with sin_i = pi/4 (the
\* number pi/4, about 0.785) and e = 0.2, so that K_realistic = K_optimistic *
\* (pi/4) / sqrt(1 - 0.2^2) and K_realistic < K_optimistic.
C22_TwoCases ==
    AmplitudesReturned =>
        /\ BothCases
        /\ RealisticIs(RDiv(Pi, Rat(4, 1)))
        /\ RLess(result.realistic.geometry, result.optimistic.geometry)

\* C22 witness: one Jupiter mass on a 10 day orbit around one solar mass gave
\* both cases, the realistic one 0.7854 / 0.97 of the optimistic one
C22_Witness ==
    /\ AmplitudesReturned
    /\ inp.planet_mass_mjup = 1
    /\ inp.orbital_period_days = 10
    /\ inp.stellar_mass_msun = {1}
    /\ result.realistic.geometry = Rat(7854, 9700)

\* C22 as stated: the realistic case is evaluated with sin_i = sin(pi/4), so
\* that K_realistic = K_optimistic * sin(pi/4) / sqrt(1 - 0.2^2).
C22_RealisticUsesSinOfQuarterPi ==
    AmplitudesReturned =>
        /\ BothCases
        /\ RealisticIs(SinQuarterPi)
        /\ RLess(result.realistic.geometry, result.optimistic.geometry)

-----------------------------------------------------------------------------
(* Specification of recompute_precision on drawn exposure times and planet
   parameters *)

\* the driver star with a spectral type that has no reference values
DriverStarF5 == Star("HD 1", SkyHigh, {10}, {"F5"})

\* requested exposure times, seconds
RequestedExposures == {30, 600, 899, 900, 1799, 1800, 2400}

\* no planet parameters, or each of mass, period and stellar mass set or None
PlanetChoices ==
    {None} \cup
    [include_transit_in_observability : {FALSE}, t0_jd : {{}},
     orbital_period_days : {{}, {10}}, planet_mass_mjup : {{}, {1}},
     stellar_mass_msun : {{}, {1}}]

InitRecomputePrecision ==
    /\ app_state \in [star : {{DriverStar}, {DriverStarF5}},
                      instrument : {{INSTRUMENTS["HARPS"]}},
                      conditions : {{DefaultConditions}},
                      reference_time : {Day + 12 * Hour},
                      night_definition : {"Nautical twilight"},
                      planet_params : PlanetChoices,
                      exposure_time : RequestedExposures,
                      observability : {None},
                      monthly_observability : {None},
                      yearly_observability : {None},
                      precision_result : {None}]
    /\ night_cache = << >>
    /\ evalCalls = 0
    /\ cur = None
    /\ prev = None
    /\ inp = None
    /\ result = None
    /\ pc = "drivers"

NextRecomputePrecision == RecomputePrecision

SpecRecomputePrecision == InitRecomputePrecision /\ [][NextRecomputePrecision]_vars

\* recompute_precision ran and stored a result
PrecisionStored == DriverCalled("recompute_precision") /\ cur.ret # None

\* the requested exposure time of the run
RequestedTime == cur.state_before.exposure_time

\* the upper end of the sampling range the breakpoints give
StatedUpperEnd ==
    IF RequestedTime < 900 THEN 1800
    ELSE IF RequestedTime < 1800 THEN 3600
    ELSE 3 * RequestedTime

\* C23: the sampling range stored by recompute_precision runs from 60 s to
\* 1800 s for t_req < 900, to 3600 s for 900 <= t_req < 1800 and to 3 * t_req
\* for t_req >= 1800; it has exactly 60 points and t_max > t_min.
C23_SamplingRange ==
    PrecisionStored =>
        /\ Len(app_state.precision_result.times) = 60
        /\ app_state.precision_result.times[1] = Rat(60, 1)
        /\ app_state.precision_result.times[60] = Rat(StatedUpperEnd, 1)
        /\ RLess(app_state.precision_result.times[1], app_state.precision_result.times[60])
        /\ \A i \in 1..59 : RLess(app_state.precision_result.times[i],
                                   app_state.precision_result.times[i + 1])

\* C23 witness: a request of exactly 900 s stored a range ending at 3600 s,
\* one of exactly 1800 s a range ending at 5400 s
C23_Witness ==
    /\ PrecisionStored
    /\ \/ RequestedTime = 900 /\ app_state.precision_result.times[60] = Rat(3600, 1)
       \/ RequestedTime = 1800 /\ app_state.precision_result.times[60] = Rat(5400, 1)
    /\ app_state.precision_result.times[2] # app_state.precision_result.times[1]

\* a <= b for fractions a > 0 and b > 0
RLeq(a, b) == RDiv(b, a).n >= RDiv(b, a).d

\* C29: in every precision result stored by recompute_precision for a positive
\* requested exposure time, t_min <= t_req <= t_max: the requested point lies
\* inside the sampled range.
C29_RequestedInsideRange ==
    (PrecisionStored /\ RequestedTime > 0) =>
        /\ RLeq(app_state.precision_result.times[1], Rat(RequestedTime, 1))
        /\ RLeq(Rat(RequestedTime, 1),
                app_state.precision_result.times[Len(app_state.precision_result.times)])

\* the planet parameters of the run, None when there are none
RunPlanet == cur.state_before.planet_params

\* a parameter the amplitudes need is absent
PlanetParameterAbsent ==
    \/ RunPlanet = None
    \/ RunPlanet.planet_mass_mjup = {}
    \/ RunPlanet.orbital_period_days = {}
    \/ RunPlanet.stellar_mass_msun = {}

\* C30: recompute_precision does not raise whichever of planet mass, orbital
\* period and stellar mass are present; a stored result has K_cases and
\* detectability both None when a needed parameter is absent and both
\* populated with the optimistic and realistic cases when all are present.
C30_PartialPlanetParameters ==
    DriverCalled("recompute_precision") =>
        /\ cur.raised = {}
        /\ cur.ret # None =>
               IF PlanetParameterAbsent
               THEN cur.ret.K_cases = None /\ cur.ret.detectability = None
               ELSE /\ DOMAIN cur.ret.K_cases = {"optimistic", "realistic"}
                    /\ DOMAIN cur.ret.detectability = {"optimistic", "realistic"}

-----------------------------------------------------------------------------
(* Specification of the detection significance curve on drawn arrays *)

\* exposure times of the arrays, seconds
CurveTimes == {Rat(0 - 600, 1), Rat(0, 1), Rat(600, 1), Rat(2400, 1)}

\* the arrays of at most two exposure times
TimeArrays == SeqsUpTo(CurveTimes, 2)

\* K absent, or the optimistic semi-amplitude of the driver planet
KValues == {None, compute_rv_semi_amplitude(1, 10, {1}, Rat(1, 1), Rat(0, 1))}

InitSignificance ==
    /\ inp \in [star : {{DriverStar}, {DriverStarF5}},
                instrument : {{INSTRUMENTS["HARPS"]}, {INSTRUMENTS["ESPRESSO"]}},
                exposure_times : TimeArrays,
                K_value : KValues]
    /\ result = None
    /\ pc = "input"
    /\ night_cache = << >>
    /\ evalCalls = 0
    /\ cur = None
    /\ prev = None
    /\ app_state = None

ComputeSignificanceCurve ==
    /\ pc = "input"
    /\ result' = compute_detection_significance_curve(inp, inp.exposure_times, inp.K_value)
    /\ pc' = "significance"
    /\ UNCHANGED <<inp, night_cache, evalCalls, cur, prev, app_state>>

NextSignificance == ComputeSignificanceCurve

SpecSignificance == InitSignificance /\ [][NextSignificance]_vars

\* the RV precision at array position i is computable and positive
SigmaComputable(i) ==
    /\ "rv_precision" \in DOMAIN PrecisionAt(inp, inp.exposure_times[i])
    /\ PrecisionAt(inp, inp.exposure_times[i]).rv_precision.n > 0

\* the entry the claim states for array position i
StatedEntry(i) ==
    IF SigmaComputable(i)
    THEN [K |-> inp.K_value, sigma |-> PrecisionAt(inp, inp.exposure_times[i]).rv_precision]
    ELSE FloatNaN

\* C24: compute_detection_significance_curve returns None when K is absent or
\* no entry would be finite, and otherwise an array as long as the exposure
\* times whose entry i is K / RV_precision(t_i) where that precision is
\* computable and positive and NaN elsewhere; it does not raise and never
\* returns an array without a finite entry.
C24_SignificanceCurve ==
    (pc = "significance") =>
        /\ ~Raised(result)
        /\ IF inp.K_value = None \/ \A i \in DOMAIN inp.exposure_times : ~SigmaComputable(i)
           THEN result = None
           ELSE /\ result # None
                /\ Len(result.array) = Len(inp.exposure_times)
                /\ \A i \in DOMAIN inp.exposure_times : result.array[i] = StatedEntry(i)
                /\ \E i \in DOMAIN result.array : result.array[i] # FloatNaN

-----------------------------------------------------------------------------
(* The compute-observability handler: app.py, _on_compute_obs *)

\* handler invocations in one behaviour
MaxHandlerRuns == 2

ObservabilityScopes == {"Night", "Month", "Year"}

\* a low target, and a target for which the providers raise at noon of day 1
HandlerStarLow == Star("HD 2", SkyLow, {10}, {"G2"})
HandlerStarGap == Star("HD 3", SkyGap, {10}, {"G2"})
HandlerStars == {DriverStar, HandlerStarLow, HandlerStarGap}

\* AppState before the first invocation: nothing computed, the flag at its
\* default
InitHandler ==
    /\ app_state \in [star : {{st} : st \in HandlerStars},
                      instrument : {{INSTRUMENTS["HARPS"]}},
                      conditions : {{DefaultConditions}},
                      reference_time : {Day + 2 * Hour},
                      night_definition : {"Nautical twilight", UnknownDefinition},
                      planet_params : {DriverPlanet},
                      exposure_time : {600},
                      observability_scope : ObservabilityScopes,
                      is_computing_observability : {FALSE},
                      observability : {None},
                      monthly_observability : {None},
                      yearly_observability : {None},
                      precision_result : {None}]
    /\ night_cache = << >>
    /\ evalCalls = 0
    /\ cur = None
    /\ prev = None
    /\ inp = None
    /\ result = None
    /\ pc = "idle"

HandlerRuns == IF cur = None THEN 0 ELSE cur.run

\* variant: the cache is not cleared
KeptCache(cache) == cache

\* line 74: night_cache.clear()
ClearedCache(cache) == << >>

\* variant: the flag is reset only when no recompute call raised
AfterHandlerNoFinally(a, raised) ==
    IF raised = {} THEN [a EXCEPT !.is_computing_observability = FALSE] ELSE a

\* lines 86-87: finally, whether or not a recompute call raised
AfterHandler(a, raised) == [a EXCEPT !.is_computing_observability = FALSE]

\* lines 74-76: the handler starts
OnComputeObsBegin ==
    /\ pc = "idle"
    /\ HandlerRuns < MaxHandlerRuns
    /\ night_cache' = ClearedCache(night_cache)
    /\ app_state' = [app_state EXCEPT !.is_computing_observability = TRUE]
    /\ cur' = [run |-> HandlerRuns + 1, calls_at_start |-> evalCalls,
               state_before |-> app_state, cache_before |-> night_cache,
               steps |-> << >>, raised |-> {}]
    /\ prev' = cur
    /\ pc' = "recompute_observability"
    /\ UNCHANGED <<evalCalls, inp, result>>

\* one recompute call inside the try block, with outcome o; an exception
\* goes to the finally clause, a return to `next`
HandlerStep(name, o, next) ==
    /\ pc = name
    /\ night_cache' = o.cache
    /\ evalCalls' = o.calls
    /\ app_state' = o.state
    /\ cur' = [cur EXCEPT !.steps = Append(@, name), !.raised = o.raised]
    /\ pc' = IF o.raised # {} THEN "finally" ELSE next
    /\ UNCHANGED <<prev, inp, result>>

\* line 79
OnComputeObsNight ==
    HandlerStep("recompute_observability",
                recompute_observability(app_state, night_cache, evalCalls),
                IF app_state.observability_scope \in {"Month", "Year"}
                THEN "recompute_monthly_observability" ELSE "finally")

\* lines 81-82
OnComputeObsMonthly ==
    HandlerStep("recompute_monthly_observability",
                recompute_monthly_observability(app_state, night_cache, evalCalls),
                IF app_state.observability_scope = "Year"
                THEN "recompute_yearly_observability" ELSE "finally")

\* lines 84-85
OnComputeObsYearly ==
    HandlerStep("recompute_yearly_observability",
                recompute_yearly_observability(app_state, night_cache, evalCalls),
                "finally")

\* lines 86-87: the handler ends, returning or propagating the exception
OnComputeObsEnd ==
    /\ pc = "finally"
    /\ app_state' = AfterHandler(app_state, cur.raised)
    /\ pc' = "idle"
    /\ UNCHANGED <<night_cache, evalCalls, cur, prev, inp, result>>

\* tabs/interface.py line 40: the scope selector
SelectScope ==
    /\ pc = "idle"
    /\ \E scope \in ObservabilityScopes :
           /\ scope # app_state.observability_scope
           /\ app_state' = [app_state EXCEPT !.observability_scope = scope]
    /\ UNCHANGED <<night_cache, evalCalls, cur, prev, inp, result, pc>>

\* tabs/controls.py, _update_star_state: another target between invocations
SelectStar ==
    /\ pc = "idle"
    /\ \E st \in HandlerStars :
           /\ {st} # app_state.star
           /\ app_state' = [app_state EXCEPT !.star = {st}]
    /\ UNCHANGED <<night_cache, evalCalls, cur, prev, inp, result, pc>>

NextHandler ==
    \/ OnComputeObsBegin
    \/ OnComputeObsNight
    \/ OnComputeObsMonthly
    \/ OnComputeObsYearly
    \/ OnComputeObsEnd
    \/ SelectScope
    \/ SelectStar

SpecHandler == InitHandler /\ [][NextHandler]_vars

-----------------------------------------------------------------------------
(* Properties of the handler (specification SpecHandler) *)

\* the handler is between its first statement and the end of its finally
InHandler ==
    pc \in {"recompute_observability", "recompute_monthly_observability",
            "recompute_yearly_observability", "finally"}

\* an invocation of the handler has ended
HandlerEnded == pc = "idle" /\ cur # None

\* the AppState with the busy flag set to f
WithFlag(f) == [app_state EXCEPT !.is_computing_observability = f]

\* outcomes o1 and o2 of a driver agree on everything the driver produces
SameDriverOutcome(o1, o2) ==
    /\ o1.ret = o2.ret
    /\ o1.raised = o2.raised
    /\ o1.cache = o2.cache
    /\ o1.state.observability = o2.state.observability
    /\ o1.state.monthly_observability = o2.state.monthly_observability
    /\ o1.state.yearly_observability = o2.state.yearly_observability

\* the recompute drivers do the same whether the flag is set or not, and
\* leave the flag as it was
FlagIsNotRead ==
    /\ SameDriverOutcome(recompute_observability(WithFlag(TRUE), night_cache, evalCalls),
                         recompute_observability(WithFlag(FALSE), night_cache, evalCalls))
    /\ SameDriverOutcome(recompute_monthly_observability(WithFlag(TRUE), night_cache, evalCalls),
                         recompute_monthly_observability(WithFlag(FALSE), night_cache, evalCalls))
    /\ SameDriverOutcome(recompute_yearly_observability(WithFlag(TRUE), night_cache, evalCalls),
                         recompute_yearly_observability(WithFlag(FALSE), night_cache, evalCalls))
    /\ recompute_monthly_observability(WithFlag(TRUE), night_cache, evalCalls)
           .state.is_computing_observability

\* C25: is_computing_observability is true from before the first recompute
\* call until the handler ends and false once it has ended, whether it
\* returned or a recompute call raised; the recompute drivers, compared on
\* the AppState and cache the handler hands them, do not read it.
C25_BusyFlagBrackets ==
    (pc \in {"idle"} \cup {"recompute_observability", "recompute_monthly_observability",
                            "recompute_yearly_observability", "finally"}) =>
        /\ InHandler => app_state.is_computing_observability
        /\ pc = "idle" => ~app_state.is_computing_observability
        /\ pc = "recompute_observability" => FlagIsNotRead

\* C25 witness: an invocation in which the monthly recompute raised has ended,
\* the flag being false
C25_Witness ==
    /\ HandlerEnded
    /\ cur.raised # {}
    /\ cur.steps = <<"recompute_observability", "recompute_monthly_observability">>
    /\ ~app_state.is_computing_observability

\* the scope and inputs of the invocation
RunScope == cur.state_before.observability_scope

\* the evaluation of the night of reference instant t for the inputs of the
\* invocation
FreshNight(t) ==
    compute_single_night_observability(
        The(cur.state_before.star).sky, t, The(cur.state_before.conditions),
        cur.state_before.night_definition, cur.state_before.planet_params)

\* the reference instants the invocation may evaluate
RunRefTimes ==
    MonthlyRefTimes(cur.state_before.reference_time) \o
    _yearly_reference_times(cur.state_before.reference_time, YEAR_OBS_NIGHTSTEP, 365)

\* `fresh` is a result for night date d with the outcome of `entry`
EntryMatches(entry, fresh, d) ==
    /\ ~Raised(fresh)
    /\ CivilDate(fresh.night_start) = d
    /\ SameOutcome(entry.result, fresh)

\* cache entry d was computed during the invocation
EntryIsOfThisRun(d) == night_cache[d].result.oid > cur.calls_at_start

\* cache entry d holds what evaluating one of the reference instants of the
\* invocation gives for the inputs of the invocation
EntryIsOfTheseInputs(d) ==
    \E i \in DOMAIN RunRefTimes :
        /\ CivilDate(RunRefTimes[i]) \in {d - 1, d}
        /\ EntryMatches(night_cache[d], FreshNight(RunRefTimes[i]), d)

\* C28: the handler empties night_cache before any evaluation, so every entry
\* of the cache was computed during the last invocation and, when the handler
\* reaches its end, holds what the inputs of that invocation give; in
\* Night scope the cache stays empty and the monthly and yearly results are
\* left as they were, in Month scope the monthly recompute runs and the yearly
\* result is left as it was, in Year scope the monthly recompute runs before
\* the yearly one.
C28_CacheInvalidatedPerRun ==
    (pc \in {"idle", "recompute_observability", "recompute_monthly_observability",
             "recompute_yearly_observability", "finally"} /\ cur # None) =>
        /\ \A d \in DOMAIN night_cache : EntryIsOfThisRun(d)
        /\ (pc = "finally") => \A d \in DOMAIN night_cache : EntryIsOfTheseInputs(d)
        /\ (pc = "recompute_observability") => night_cache = << >>
        /\ (RunScope = "Night") =>
               /\ night_cache = << >>
               /\ app_state.monthly_observability = cur.state_before.monthly_observability
               /\ app_state.yearly_observability = cur.state_before.yearly_observability
               /\ "recompute_monthly_observability" \notin {cur.steps[i] : i \in DOMAIN cur.steps}
        /\ (RunScope \in {"Night", "Month"}) =>
               /\ app_state.yearly_observability = cur.state_before.yearly_observability
               /\ "recompute_yearly_observability" \notin {cur.steps[i] : i \in DOMAIN cur.steps}
        /\ (HandlerEnded /\ cur.raised = {}) =>
               cur.steps = IF RunScope = "Night" THEN <<"recompute_observability">>
                           ELSE IF RunScope = "Month"
                           THEN <<"recompute_observability", "recompute_monthly_observability">>
                           ELSE <<"recompute_observability", "recompute_monthly_observability",
                                  "recompute_yearly_observability">>

\* C28 witness: a second invocation, for another target than the first and in
\* Year scope, has ended with the monthly and yearly results stored and a
\* filled cache, the first invocation having left entries behind
C28_Witness ==
    /\ HandlerEnded
    /\ cur.run = 2
    /\ cur.cache_before # << >>
    /\ cur.state_before.star # prev.state_before.star
    /\ RunScope = "Year"
    /\ cur.raised = {}
    /\ DOMAIN night_cache # {}
    /\ app_state.yearly_observability # None

-----------------------------------------------------------------------------
(* Specification of the transit helper on drawn epochs, periods and windows *)

TransitEpochs == (0 - 6)..6
TransitPeriods == 1..4
WindowStarts == (0 - 4)..4
WindowLengths == 0..3

InitTransit ==
    /\ \E len \in WindowLengths :
           inp \in [t0_jd : TransitEpochs, period_days : TransitPeriods,
                    window_start : WindowStarts, window_end : WindowStarts \cup {5, 6, 7}]
           /\ inp.window_end = inp.window_start + len
    /\ result = None
    /\ pc = "input"
    /\ night_cache = << >>
    /\ evalCalls = 0
    /\ cur = None
    /\ prev = None
    /\ app_state = None

HasTransitInWindow ==
    /\ pc = "input"
    /\ result' = [found |-> _has_transit_in_window(inp.t0_jd, inp.period_days,
                                                   inp.window_start, inp.window_end)]
    /\ pc' = "transit"
    /\ UNCHANGED <<inp, night_cache, evalCalls, cur, prev, app_state>>

NextTransit == HasTransitInWindow

SpecTransit == InitTransit /\ [][NextTransit]_vars

\* every epoch index n for which T0 + n*P can lie in the window, P >= 1
EpochIndices ==
    (0 - (Abs(inp.t0_jd) + Abs(inp.window_start) + Abs(inp.window_end)))
        ..(Abs(inp.t0_jd) + Abs(inp.window_start) + Abs(inp.window_end))

\* C27: for a period P > 0 and a window with window_start <= window_end,
\* _has_transit_in_window returns true exactly when some integer n, of either
\* sign or zero, has window_start <= T0 + n*P <= window_end, both ends
\* included.
C27_TransitWindowExact ==
    (pc = "transit") =>
        (result.found <=>
            \E n \in EpochIndices :
                /\ inp.window_start <= inp.t0_jd + n * inp.period_days
                /\ inp.t0_jd + n * inp.period_days <= inp.window_end)

\* C27 witness: T0 = 6 and P = 4 give a transit at -2, two periods before T0
\* and exactly at the end of the window [-4, -2], found by the helper
C27_Witness ==
    /\ pc = "transit"
    /\ inp.t0_jd = 6
    /\ inp.period_days = 4
    /\ inp.window_start = 0 - 4
    /\ inp.window_end = 0 - 2
    /\ result.found

====
